---- MODULE Spec2Model ----
(***************************************************************************)
(* A state-machine model of the camera matcher core:                      *)
(*   camera_matcher/core/camera_parameters.py  (CameraParameters)         *)
(*   camera_matcher/core/locator_pair.py       (LocatorPair)              *)
(*   camera_matcher/core/optimization.py       (CameraOptimizer)          *)
(*   camera_matcher/core/camera_matcher.py     (CameraMatcher)            *)
(*   camera_matcher/ui/main_window.py          (CameraMatcherUI)          *)
(* Floats are modelled by integers (and exact rationals for projected     *)
(* pixel coordinates); Optional[float] is <<>> (None) or <<v>>.           *)
(***************************************************************************)
EXTENDS Integers, Sequences, FiniteSets, TLC

VARIABLES
    camera_params,   \* the CameraParameters instance (values, constraint dict, constraint objects)
    maya,            \* the Maya scene: the camera node and the locator nodes
    locator_pairs,   \* the LocatorPair instances, by pair_id
    optimizer,       \* the CameraOptimizer instance and the position of a running optimize()
    last,            \* the last operation called, what it was called on and its outcome
    history,         \* what has been observed so far on each pair, and of the run in progress
    matcher,         \* the CameraMatcher instance: image, pair counter, and which objects it and its optimizer hold
    ui               \* the CameraMatcherUI window: its optimization worker, button, progress bar

vars == <<camera_params, maya, locator_pairs, optimizer, last, history, matcher, ui>>

----------------------------------------------------------------------------
(* Bounds of the model.                                                    *)

\* parameter values passed to set_parameter_value / set_parameter_vector: -1, 0, MaxVal
MaxVal == 1
\* ParameterConstraints passed by callers have min_value MaxBound or None and
\* max_value 0 or None (lower only, upper only, none, or an empty interval)
MaxBound == 1

(* Program constants.                                                      *)
FocalMin == 1
FocalMax == 1000
FilmOffsetMin == -50
FilmOffsetMax == 50
DefaultFocalLength == 35
DefaultApertureH == 36
DefaultApertureV == 24

----------------------------------------------------------------------------
(* Values.                                                                 *)

None == <<>>
Some(v) == <<v>>

\* floats of the bound arrays: finite, -np.inf, np.inf
Fin(v) == <<0, v>>
NegInf == <<-1, 0>>
PosInf == <<1, 0>>

max(a, b) == IF a >= b THEN a ELSE b
min(a, b) == IF a <= b THEN a ELSE b

\* the canonical parameter order
param_names ==
    << "translate_x", "translate_y", "translate_z",
       "rotate_x", "rotate_y", "rotate_z",
       "focal_length", "film_offset_x", "film_offset_y" >>

ParamNameSet == {param_names[i] : i \in 1..Len(param_names)}

IndexOf(name) == CHOOSE i \in 1..Len(param_names) : param_names[i] = name

\* @dataclass ParameterConstraints
ParameterConstraints(locked, lo, hi) ==
    [is_locked |-> locked, min_value |-> lo, max_value |-> hi]

DefaultConstraints == ParameterConstraints(FALSE, None, None)

\* a clamp that treats both bounds as exclusive
clamp_value_exclusive(c, value) ==
    LET v1 == IF c.min_value # None /\ value <= c.min_value[1]
              THEN c.min_value[1] + 1 ELSE value
    IN  IF c.max_value # None /\ v1 >= c.max_value[1]
        THEN c.max_value[1] - 1 ELSE v1

\* a clamp that moves a value outside the bounds one unit toward them
clamp_value_toward(c, value) ==
    LET v1 == IF c.min_value # None /\ value < c.min_value[1] THEN value + 1 ELSE value
    IN  IF c.max_value # None /\ v1 > c.max_value[1] THEN v1 - 1 ELSE v1

\* ParameterConstraints.clamp_value
clamp_value(c, value) ==
    LET v1 == IF c.min_value # None THEN max(value, c.min_value[1]) ELSE value
    IN  IF c.max_value # None THEN min(v1, c.max_value[1]) ELSE v1

----------------------------------------------------------------------------
(* CameraParameters.  A parameter set cp is a record of the instance's     *)
(* fields; cp._constraints maps each name to the identity of the           *)
(* ParameterConstraints object stored under it and cp.objects maps an      *)
(* identity to the object's fields, so that one object stored under        *)
(* several names is one object.                                            *)

ObjIds == 0..Len(param_names)

\* the constraints dict built by __init__: one object per name
InitialConstraintOf(name) ==
    CASE name = "focal_length"  -> ParameterConstraints(FALSE, Some(FocalMin), Some(FocalMax))
      [] name = "film_offset_x" -> ParameterConstraints(FALSE, Some(FilmOffsetMin), Some(FilmOffsetMax))
      [] name = "film_offset_y" -> ParameterConstraints(FALSE, Some(FilmOffsetMin), Some(FilmOffsetMax))
      [] OTHER                  -> DefaultConstraints

\* CameraParameters.get_parameter_value
get_parameter_value(cp, param_name) ==
    CASE param_name = "translate_x"   -> cp._translation[1]
      [] param_name = "translate_y"   -> cp._translation[2]
      [] param_name = "translate_z"   -> cp._translation[3]
      [] param_name = "rotate_x"      -> cp._rotation[1]
      [] param_name = "rotate_y"      -> cp._rotation[2]
      [] param_name = "rotate_z"      -> cp._rotation[3]
      [] param_name = "focal_length"  -> cp._focal_length
      [] param_name = "film_offset_x" -> cp._film_offset_x
      [] param_name = "film_offset_y" -> cp._film_offset_y

\* CameraParameters.get_constraints: the object stored under param_name
get_constraints(cp, param_name) == cp.objects[cp._constraints[param_name]]

\* CameraParameters.set_parameter_value
set_parameter_value(cp, param_name, v) ==
    LET value == IF param_name \in DOMAIN cp._constraints
                 THEN clamp_value(get_constraints(cp, param_name), v)
                 ELSE v
    IN  CASE param_name = "translate_x"   -> [cp EXCEPT !._translation[1] = value]
          [] param_name = "translate_y"   -> [cp EXCEPT !._translation[2] = value]
          [] param_name = "translate_z"   -> [cp EXCEPT !._translation[3] = value]
          [] param_name = "rotate_x"      -> [cp EXCEPT !._rotation[1] = value]
          [] param_name = "rotate_y"      -> [cp EXCEPT !._rotation[2] = value]
          [] param_name = "rotate_z"      -> [cp EXCEPT !._rotation[3] = value]
          [] param_name = "focal_length"  -> [cp EXCEPT !._focal_length = value]
          [] param_name = "film_offset_x" -> [cp EXCEPT !._film_offset_x = value]
          [] param_name = "film_offset_y" -> [cp EXCEPT !._film_offset_y = value]

\* CameraParameters.is_parameter_locked
is_parameter_locked(cp, param_name) == get_constraints(cp, param_name).is_locked

\* Object identities are kept canonical: an object is named by the position
\* of the first name it is stored under, and an object no name refers to is
\* gone (identity 0 is the object the caller has just constructed).
Canonical(cp) ==
    LET first == [o \in ObjIds |->
                    LET holders == {i \in 1..Len(param_names) :
                                        cp._constraints[param_names[i]] = o}
                    IN  IF holders = {} THEN 0
                        ELSE CHOOSE i \in holders : \A j \in holders : i <= j]
    IN  [cp EXCEPT
            !._constraints = [n \in ParamNameSet |-> first[cp._constraints[n]]],
            !.objects = [o \in ObjIds |->
                IF o # 0 /\ first[cp._constraints[param_names[o]]] = o
                THEN cp.objects[cp._constraints[param_names[o]]]
                ELSE DefaultConstraints]]

\* a set_constraints that stores the object and leaves the value as it is
set_constraints_no_reclamp(cp, param_name, obj) ==
    Canonical([cp EXCEPT !._constraints[param_name] = obj])

\* CameraParameters.set_constraints, given the identity of the object passed
set_constraints(cp, param_name, obj) ==
    LET cp1 == [cp EXCEPT !._constraints[param_name] = obj]
        current_value == get_parameter_value(cp1, param_name)
        constrained_value == clamp_value(cp1.objects[obj], current_value)
    IN  Canonical(IF constrained_value # current_value
                  THEN set_parameter_value(cp1, param_name, constrained_value)
                  ELSE cp1)

\* CameraParameters.lock_parameter: sets is_locked of the stored object
lock_parameter(cp, param_name, locked) ==
    [cp EXCEPT !.objects[cp._constraints[param_name]].is_locked = locked]

\* CameraParameters.get_unlocked_parameter_names
get_unlocked_parameter_names(cp) ==
    SelectSeq(param_names, LAMBDA name : ~is_parameter_locked(cp, name))

\* the loop of get_parameter_vector, from position i of param_names on
RECURSIVE VectorFrom(_, _)
VectorFrom(cp, i) ==
    IF i > Len(param_names) THEN <<>>
    ELSE IF ~is_parameter_locked(cp, param_names[i])
         THEN <<get_parameter_value(cp, param_names[i])>> \o VectorFrom(cp, i + 1)
         ELSE VectorFrom(cp, i + 1)

\* CameraParameters.get_parameter_vector
get_parameter_vector(cp) == VectorFrom(cp, 1)

\* a loop that writes entry i to the i-th canonical name, locked or not
RECURSIVE WriteFrom_by_position(_, _, _, _)
WriteFrom_by_position(cp, unlocked_params, values, i) ==
    IF i > Len(unlocked_params) THEN cp
    ELSE WriteFrom_by_position(set_parameter_value(cp, param_names[i], values[i]),
                               unlocked_params, values, i + 1)

\* the loop of set_parameter_vector over enumerate(unlocked_params), from i on
RECURSIVE WriteFrom(_, _, _, _)
WriteFrom(cp, unlocked_params, values, i) ==
    IF i > Len(unlocked_params) THEN cp
    ELSE WriteFrom(set_parameter_value(cp, unlocked_params[i], values[i]),
                   unlocked_params, values, i + 1)

\* a set_parameter_vector that checks the count only after its writes
set_parameter_vector_check_last(cp, values) ==
    LET unlocked_params == SelectSeq(param_names,
                               LAMBDA name : ~is_parameter_locked(cp, name))
        n == min(Len(values), Len(unlocked_params))
        written == WriteFrom(cp, SubSeq(unlocked_params, 1, n), values, 1)
    IN  IF Len(values) # Len(unlocked_params)
        THEN [cp |-> written, err |-> "ValueError"]
        ELSE [cp |-> written, err |-> "none"]

\* CameraParameters.set_parameter_vector: the new parameter set and the error raised
set_parameter_vector(cp, values) ==
    LET unlocked_params == SelectSeq(param_names,
                               LAMBDA name : ~is_parameter_locked(cp, name))
    IN  IF Len(values) # Len(unlocked_params)
        THEN [cp |-> cp, err |-> "ValueError"]
        ELSE [cp |-> WriteFrom(cp, unlocked_params, values, 1), err |-> "none"]

\* bound arrays built over all nine names, locked ones included
_get_parameter_bounds_all_names(cp) ==
    LET lower_bounds == [i \in 1..Len(param_names) |->
            IF get_constraints(cp, param_names[i]).min_value # None
            THEN Fin(get_constraints(cp, param_names[i]).min_value[1]) ELSE NegInf]
        upper_bounds == [i \in 1..Len(param_names) |->
            IF get_constraints(cp, param_names[i]).max_value # None
            THEN Fin(get_constraints(cp, param_names[i]).max_value[1]) ELSE PosInf]
    IN  <<lower_bounds, upper_bounds>>

\* CameraOptimizer._get_parameter_bounds
_get_parameter_bounds(cp) ==
    LET names == get_unlocked_parameter_names(cp)
        lower_bounds == [i \in 1..Len(names) |->
            IF get_constraints(cp, names[i]).min_value # None
            THEN Fin(get_constraints(cp, names[i]).min_value[1]) ELSE NegInf]
        upper_bounds == [i \in 1..Len(names) |->
            IF get_constraints(cp, names[i]).max_value # None
            THEN Fin(get_constraints(cp, names[i]).max_value[1]) ELSE PosInf]
    IN  <<lower_bounds, upper_bounds>>

----------------------------------------------------------------------------
(* Exact rationals <<n, d>>, d > 0, in lowest terms, for projected          *)
(* coordinates.                                                            *)

Abs(x) == IF x < 0 THEN -x ELSE x

RECURSIVE GCD(_, _)
GCD(a, b) == IF b = 0 THEN a ELSE GCD(b, a % b)

Q(n, d) ==
    LET g == GCD(Abs(n), Abs(d))
        s == IF d < 0 THEN -1 ELSE 1
    IN  <<(s * n) \div g, (s * d) \div g>>

QInt(n) == <<n, 1>>
QAdd(a, b) == Q(a[1] * b[2] + b[1] * a[2], a[2] * b[2])
QSub(a, b) == Q(a[1] * b[2] - b[1] * a[2], a[2] * b[2])
QMul(a, b) == Q(a[1] * b[1], a[2] * b[2])
QDiv(a, b) == Q(a[1] * b[2], a[2] * b[1])
QHalf == <<1, 2>>

----------------------------------------------------------------------------
(* The Maya scene (maya.cmds).  A node is "absent", a "transform", or a    *)
(* node of some "other" type that exists under the name but has no         *)
(* transform to query.  The camera shape's inch attributes are kept as     *)
(* integer counts of 1/127 inch, so that the factor 25.4 is exact.         *)

CameraName == "camera1"
LocatorNames == {"cam_match_loc_001", "cam_match_loc_002", "cam_match_loc_003"}

\* cmds.objExists
objExists(m, name) ==
    IF name = CameraName THEN m.camera.kind # "absent"
    ELSE IF name \in DOMAIN m.nodes THEN m.nodes[name].kind # "absent"
    ELSE FALSE

\* attribute in inches * 25.4
ToMm(u) == (u * 254) \div 1270
\* millimetres / 25.4
ToInch(mm) == (mm * 1270) \div 254

\* CameraParameters._update_from_maya: the new parameter set and the error raised
_update_from_maya(cp, m) ==
    IF ~objExists(m, cp.camera_name)
    THEN [cp |-> cp, err |-> "RuntimeError"]
    ELSE [cp |-> [cp EXCEPT
                    !._translation = m.camera.translate,
                    !._rotation = m.camera.rotate,
                    !._focal_length = m.camera.focalLength,
                    !._film_offset_x = ToMm(m.camera.horizontalFilmOffset),
                    !._film_offset_y = ToMm(m.camera.verticalFilmOffset),
                    !._film_aperture_h = ToMm(m.camera.horizontalFilmAperture),
                    !._film_aperture_v = ToMm(m.camera.verticalFilmAperture)],
          err |-> "none"]

\* CameraParameters.apply_to_maya: the new scene and the error raised
apply_to_maya(cp, m) ==
    IF ~objExists(m, cp.camera_name)
    THEN [maya |-> m, err |-> "RuntimeError"]
    ELSE [maya |-> [m EXCEPT
                    !.camera.translate = cp._translation,
                    !.camera.rotate = cp._rotation,
                    !.camera.focalLength = cp._focal_length,
                    !.camera.horizontalFilmOffset = ToInch(cp._film_offset_x),
                    !.camera.verticalFilmOffset = ToInch(cp._film_offset_y)],
          err |-> "none"]

\* CameraParameters.__init__
NewCameraParameters(m, camera_name) ==
    _update_from_maya(
        [camera_name |-> camera_name,
         _translation |-> <<0, 0, 0>>,
         _rotation |-> <<0, 0, 0>>,
         _focal_length |-> DefaultFocalLength,
         _film_offset_x |-> 0,
         _film_offset_y |-> 0,
         _film_aperture_h |-> DefaultApertureH,
         _film_aperture_v |-> DefaultApertureV,
         _constraints |-> [n \in ParamNameSet |-> IndexOf(n)],
         objects |-> [o \in ObjIds |->
                        IF o = 0 THEN DefaultConstraints
                        ELSE InitialConstraintOf(param_names[o])]],
        m).cp

----------------------------------------------------------------------------
(* LocatorPair.  Each operation gives the pair after it, the error raised  *)
(* ("none" when it returns) and the value returned.                        *)

\* LocatorPair.__init__
LocatorPair(locator_name, pixel_coords, pair_id) ==
    [locator_name |-> locator_name, pixel_coords |-> pixel_coords,
     pair_id |-> pair_id, _is_valid |-> TRUE]

\* LocatorPair.is_valid
is_valid(m, pair) ==
    IF ~pair._is_valid THEN FALSE ELSE objExists(m, pair.locator_name)

\* a world_position that raises without recording the failure
world_position_no_latch(m, pair) ==
    IF ~objExists(m, pair.locator_name) \/ m.nodes[pair.locator_name].kind # "transform"
    THEN [pair |-> pair, err |-> "RuntimeError", ret |-> None]
    ELSE [pair |-> pair, err |-> "none", ret |-> m.nodes[pair.locator_name].translate]

\* LocatorPair.world_position
world_position(m, pair) ==
    IF ~objExists(m, pair.locator_name)
    THEN [pair |-> [pair EXCEPT !._is_valid = FALSE], err |-> "RuntimeError", ret |-> None]
    ELSE IF m.nodes[pair.locator_name].kind # "transform"
         THEN \* cmds.xform raises: the except branch
              [pair |-> [pair EXCEPT !._is_valid = FALSE], err |-> "RuntimeError", ret |-> None]
         ELSE [pair |-> pair, err |-> "none", ret |-> m.nodes[pair.locator_name].translate]

\* LocatorPair.update_locator_position: the pair, the scene and the error raised
update_locator_position(m, pair, world_pos) ==
    IF ~objExists(m, pair.locator_name)
    THEN [pair |-> [pair EXCEPT !._is_valid = FALSE], maya |-> m, err |-> "RuntimeError"]
    ELSE IF m.nodes[pair.locator_name].kind # "transform"
         THEN [pair |-> pair, maya |-> m, err |-> "RuntimeError"]
         ELSE [pair |-> pair,
               maya |-> [m EXCEPT !.nodes[pair.locator_name].translate = world_pos],
               err |-> "none"]

\* LocatorPair.delete_locator: the pair and the scene
delete_locator(m, pair) ==
    [pair |-> [pair EXCEPT !._is_valid = FALSE],
     maya |-> IF objExists(m, pair.locator_name)
              THEN [m EXCEPT !.nodes[pair.locator_name].kind = "absent"]
              ELSE m]

\* cosine and sine of a rotation of d degrees, d a multiple of 90
cosd(d) == CASE d % 360 = 0 -> 1 [] d % 360 = 180 -> -1 [] OTHER -> 0
sind(d) == CASE d % 360 = 90 -> 1 [] d % 360 = 270 -> -1 [] OTHER -> 0

\* point * camera_mmatrix.inverse(), for a camera translated by t and
\* rotated about Y only
CameraSpacePoint(point, t, r) ==
    LET x == point[1] - t[1]
        y == point[2] - t[2]
        z == point[3] - t[3]
    IN  << x * cosd(r[2]) - z * sind(r[2]),
           y,
           x * sind(r[2]) + z * cosd(r[2]) >>

\* the projection of get_projected_coords, from the camera-space point on:
\* the NDC pair, or None when |z| < 1e-6
ProjectCameraSpace(cs, focal_length, h_aperture, v_aperture, h_offset, v_offset) ==
    IF cs[3] = 0 THEN None
    ELSE LET x_proj == Q(-cs[1], cs[3])
             y_proj == Q(cs[2], cs[3])
             x_film == QAdd(QMul(x_proj, QInt(focal_length)), QInt(h_offset))
             y_film == QAdd(QMul(y_proj, QInt(focal_length)), QInt(v_offset))
             x_norm == QDiv(x_film, QMul(QInt(h_aperture), QHalf))
             y_norm == QDiv(y_film, QMul(QInt(v_aperture), QHalf))
         IN  <<x_norm, y_norm>>

\* LocatorPair.get_projected_coords: every camera value is read from the scene
get_projected_coords(m, pair, camera_name) ==
    IF ~objExists(m, camera_name)
    THEN [pair |-> pair, err |-> "RuntimeError", ret |-> None]
    ELSE IF ~is_valid(m, pair)
    THEN [pair |-> pair, err |-> "RuntimeError", ret |-> None]
    ELSE LET Projected(wp, ndc) ==
                 IF ndc = None
                 THEN [pair |-> wp.pair, err |-> "RuntimeError", ret |-> None]
                 ELSE [pair |-> wp.pair, err |-> "none", ret |-> ndc]
             Positioned(wp) ==
                 IF wp.err # "none"
                 THEN [pair |-> wp.pair, err |-> "RuntimeError", ret |-> None]
                 ELSE Projected(wp, ProjectCameraSpace(
                                CameraSpacePoint(wp.ret, m.camera.translate, m.camera.rotate),
                                m.camera.focalLength,
                                ToMm(m.camera.horizontalFilmAperture),
                                ToMm(m.camera.verticalFilmAperture),
                                ToMm(m.camera.horizontalFilmOffset),
                                ToMm(m.camera.verticalFilmOffset)))
         IN  Positioned(world_position(m, pair))

\* NDC to pixel coordinates, as in _objective_function and get_reprojection_error
NdcToPixel(ndc, image_width, image_height) ==
    << QMul(QMul(QAdd(ndc[1], QInt(1)), QHalf), QInt(image_width)),
       QMul(QMul(QSub(QInt(1), ndc[2]), QHalf), QInt(image_height)) >>

\* float('inf'), and the square root of a rational q (kept as its radicand)
Inf == <<"inf">>
Sqrt(q) == <<"sqrt", q>>

\* a get_reprojection_error that lets the failure of the projection propagate
get_reprojection_error_unguarded(m, pair, camera_name, image_width, image_height) ==
    LET Distance(p, dx, dy) ==
            [pair |-> p.pair, err |-> "none", ret |-> Sqrt(QAdd(QMul(dx, dx), QMul(dy, dy)))]
        Difference(p, proj_pixel) ==
            Distance(p, QSub(proj_pixel[1], QInt(pair.pixel_coords[1])),
                        QSub(proj_pixel[2], QInt(pair.pixel_coords[2])))
        Projected(p) ==
            IF p.err # "none"
            THEN [pair |-> p.pair, err |-> p.err, ret |-> None]
            ELSE Difference(p, NdcToPixel(p.ret, image_width, image_height))
    IN  Projected(get_projected_coords(m, pair, camera_name))

\* LocatorPair.get_reprojection_error: the pair, the error raised and the
\* value returned
get_reprojection_error(m, pair, camera_name, image_width, image_height) ==
    LET Distance(p, dx, dy) ==
            [pair |-> p.pair, err |-> "none", ret |-> Sqrt(QAdd(QMul(dx, dx), QMul(dy, dy)))]
        Difference(p, proj_pixel) ==
            Distance(p, QSub(proj_pixel[1], QInt(pair.pixel_coords[1])),
                        QSub(proj_pixel[2], QInt(pair.pixel_coords[2])))
        Projected(p) ==
            IF p.err # "none"
            THEN [pair |-> p.pair, err |-> "none", ret |-> Inf]
            ELSE Difference(p, NdcToPixel(p.ret, image_width, image_height))
    IN  Projected(get_projected_coords(m, pair, camera_name))

\* math_utils.project_point, the camera matrix given by the translation t and
\* the rotation r of the camera: the error raised and the pair returned
project_point(point_3d, t, r, focal_length, film_width, film_height, film_offset_x, film_offset_y) ==
    LET camera_point == CameraSpacePoint(point_3d, t, r)
    IN  IF camera_point[3] = 0
        THEN [err |-> "none", ret |-> <<QInt(0), QInt(0)>>]
        ELSE LET x_proj == Q(-camera_point[1], camera_point[3])
                 y_proj == Q(camera_point[2], camera_point[3])
                 x_film == QAdd(QMul(x_proj, QInt(focal_length)), QInt(film_offset_x))
                 y_film == QAdd(QMul(y_proj, QInt(focal_length)), QInt(film_offset_y))
                 x_norm == QDiv(x_film, QMul(QInt(film_width), QHalf))
                 y_norm == QDiv(y_film, QMul(QInt(film_height), QHalf))
             IN  [err |-> "none", ret |-> <<x_norm, y_norm>>]

----------------------------------------------------------------------------
(* CameraOptimizer.  opt is the record of the instance's own fields; the   *)
(* parameter set, the pairs and the scene are passed beside it.            *)

\* the residuals appended when a projection fails
Penalty == 1000

LeastSquaresMethods == {"lm", "trf", "dogbox"}

\* a filter that keeps every pair of the list
valid_pairs_unfiltered(m, pairs) == pairs

\* [pair for pair in self.locator_pairs if pair.is_valid]
valid_pairs(m, pairs) == SelectSeq(pairs, LAMBDA pair : is_valid(m, pair))

\* a loop that adds the large residuals for an invalid pair, too
RECURSIVE ResidualsFrom_penalize_invalid(_, _, _, _, _, _)
ResidualsFrom_penalize_invalid(m, pairs, camera_name, image_width, image_height, i) ==
    IF i > Len(pairs) THEN [pairs |-> pairs, residuals |-> <<>>]
    ELSE LET Difference(proj_pixel) ==
                 << QSub(proj_pixel[1], QInt(pairs[i].pixel_coords[1])),
                    QSub(proj_pixel[2], QInt(pairs[i].pixel_coords[2])) >>
             Appended(p, rest) ==
                 IF p.err # "none"
                 THEN [rest EXCEPT !.residuals = <<QInt(Penalty), QInt(Penalty)>> \o @]
                 ELSE [rest EXCEPT !.residuals =
                          Difference(NdcToPixel(p.ret, image_width, image_height)) \o @]
             Projected(p) ==
                 Appended(p, ResidualsFrom_penalize_invalid(m, [pairs EXCEPT ![i] = p.pair],
                                                            camera_name, image_width,
                                                            image_height, i + 1))
         IN  Projected(get_projected_coords(m, pairs[i], camera_name))

\* the loop of _objective_function over self.locator_pairs, from pair i on:
\* the pairs after it and the residuals
RECURSIVE ResidualsFrom(_, _, _, _, _, _)
ResidualsFrom(m, pairs, camera_name, image_width, image_height, i) ==
    IF i > Len(pairs) THEN [pairs |-> pairs, residuals |-> <<>>]
    ELSE IF ~is_valid(m, pairs[i])
    THEN ResidualsFrom(m, pairs, camera_name, image_width, image_height, i + 1)
    ELSE LET Difference(proj_pixel) ==
                 << QSub(proj_pixel[1], QInt(pairs[i].pixel_coords[1])),
                    QSub(proj_pixel[2], QInt(pairs[i].pixel_coords[2])) >>
             Appended(p, rest) ==
                 IF p.err # "none"
                 THEN [rest EXCEPT !.residuals = <<QInt(Penalty), QInt(Penalty)>> \o @]
                 ELSE [rest EXCEPT !.residuals =
                          Difference(NdcToPixel(p.ret, image_width, image_height)) \o @]
             Projected(p) ==
                 Appended(p, ResidualsFrom(m, [pairs EXCEPT ![i] = p.pair], camera_name,
                                           image_width, image_height, i + 1))
         IN  Projected(get_projected_coords(m, pairs[i], camera_name))

\* CameraOptimizer._objective_function: the parameter set and the pairs
\* after it, the error raised and the residuals returned
_objective_function(opt, cp, m, pairs, params) ==
    LET Computed(w, r) ==
            [cp |-> w.cp, pairs |-> r.pairs, err |-> "none", ret |-> Some(r.residuals)]
        Written(w) ==
            IF w.err # "none"
            THEN [cp |-> w.cp, pairs |-> pairs, err |-> w.err, ret |-> None]
            ELSE Computed(w, ResidualsFrom(m, pairs, cp.camera_name,
                                           opt.image_width, opt.image_height, 1))
    IN  Written(set_parameter_vector(cp, params))

\* np.sum(residuals ** 2)
RECURSIVE SumSquares(_)
SumSquares(residuals) ==
    IF residuals = <<>> THEN QInt(0)
    ELSE QAdd(QMul(Head(residuals), Head(residuals)), SumSquares(Tail(residuals)))

\* CameraOptimizer.validate_setup: the message returned
validate_setup(opt, cp, m, pairs) ==
    IF ~opt.has_params THEN "Camera parameters not set"
    ELSE IF Len(pairs) = 0 THEN "No locator pairs available"
    ELSE IF Len(valid_pairs(m, pairs)) < 3 THEN "At least 3 valid locator pairs required"
    ELSE IF Len(get_unlocked_parameter_names(cp)) = 0
         THEN "No unlocked parameters available for optimization"
    ELSE IF opt.image_width <= 0 \/ opt.image_height <= 0 THEN "Invalid image dimensions"
    ELSE "Setup is valid"

\* CameraOptimizer.optimize, up to the call of the solver: the error raised,
\* "none" when the solver is entered
optimize(opt, cp, m, pairs) ==
    IF Len(pairs) = 0 THEN "ValueError"
    ELSE IF Len(valid_pairs(m, pairs)) = 0 THEN "ValueError"
    ELSE IF Len(valid_pairs(m, pairs)) < 3 THEN "ValueError"
    ELSE IF ~opt.has_params THEN "AttributeError"
    ELSE IF Len(get_parameter_vector(cp)) = 0 THEN "ValueError"
    ELSE "none"

\* CameraMatcher.optimize_camera, up to the call of the solver
optimize_camera(opt, cp, m, pairs) ==
    IF validate_setup(opt, cp, m, pairs) # "Setup is valid" THEN "RuntimeError"
    ELSE optimize(opt, cp, m, pairs)

\* error ** 2, error the value returned by get_reprojection_error
Squared(error) == IF error = Inf THEN Inf ELSE error[2]

\* total_error += error ** 2
AddError(total_error, e2) ==
    IF total_error = Inf \/ e2 = Inf THEN Inf ELSE QAdd(total_error, e2)

\* the loop of calculate_total_error over self.locator_pairs, from pair i on:
\* the pairs after it and the sum (when camera_params is None, the read of
\* camera_transform raises and the pair is skipped)
RECURSIVE TotalErrorFrom(_, _, _, _, _)
TotalErrorFrom(opt, cp, m, pairs, i) ==
    IF i > Len(pairs) THEN [pairs |-> pairs, ret |-> QInt(0)]
    ELSE IF ~is_valid(m, pairs[i]) \/ ~opt.has_params
    THEN TotalErrorFrom(opt, cp, m, pairs, i + 1)
    ELSE LET Added(e, rest) == [rest EXCEPT !.ret = AddError(Squared(e.ret), @)]
             Measured(e) ==
                 Added(e, TotalErrorFrom(opt, cp, m, [pairs EXCEPT ![i] = e.pair], i + 1))
         IN  Measured(get_reprojection_error(m, pairs[i], cp.camera_name,
                                             opt.image_width, opt.image_height))

\* CameraOptimizer.calculate_total_error: the pairs after it and the sum
calculate_total_error(opt, cp, m, pairs) == TotalErrorFrom(opt, cp, m, pairs, 1)

\* an RMS error that is 0 when no pair is valid
calculate_rms_error_zero(opt, cp, m, pairs) ==
    LET Mean(t, valid_count) ==
            IF valid_count = 0 THEN [pairs |-> t.pairs, ret |-> Sqrt(QInt(0))]
            ELSE IF t.ret = Inf THEN [pairs |-> t.pairs, ret |-> Inf]
            ELSE [pairs |-> t.pairs, ret |-> Sqrt(QDiv(t.ret, QInt(valid_count)))]
        Summed(t) == Mean(t, Len(SelectSeq(t.pairs, LAMBDA pair : is_valid(m, pair))))
    IN  Summed(calculate_total_error(opt, cp, m, pairs))

\* CameraOptimizer.calculate_rms_error: the pairs after it and the value
calculate_rms_error(opt, cp, m, pairs) ==
    LET Mean(t, valid_count) ==
            IF valid_count = 0 THEN [pairs |-> t.pairs, ret |-> Inf]
            ELSE IF t.ret = Inf THEN [pairs |-> t.pairs, ret |-> Inf]
            ELSE [pairs |-> t.pairs, ret |-> Sqrt(QDiv(t.ret, QInt(valid_count)))]
        Summed(t) == Mean(t, Len(SelectSeq(t.pairs, LAMBDA pair : is_valid(m, pair))))
    IN  Summed(calculate_total_error(opt, cp, m, pairs))

\* the loop of get_individual_errors, from pair i on: the pairs after it and
\* the list of (pair_id, error)
RECURSIVE IndividualErrorsFrom(_, _, _, _, _)
IndividualErrorsFrom(opt, cp, m, pairs, i) ==
    IF i > Len(pairs) THEN [pairs |-> pairs, ret |-> <<>>]
    ELSE IF ~is_valid(m, pairs[i])
    THEN IndividualErrorsFrom(opt, cp, m, pairs, i + 1)
    ELSE IF ~opt.has_params
    THEN LET rest == IndividualErrorsFrom(opt, cp, m, pairs, i + 1)
         IN  [rest EXCEPT !.ret = << <<pairs[i].pair_id, Inf>> >> \o @]
    ELSE LET Listed(e, rest) == [rest EXCEPT !.ret = << <<pairs[i].pair_id, e.ret>> >> \o @]
             Measured(e) ==
                 Listed(e, IndividualErrorsFrom(opt, cp, m, [pairs EXCEPT ![i] = e.pair], i + 1))
         IN  Measured(get_reprojection_error(m, pairs[i], cp.camera_name,
                                             opt.image_width, opt.image_height))

\* CameraOptimizer.get_individual_errors
get_individual_errors(opt, cp, m, pairs) == IndividualErrorsFrom(opt, cp, m, pairs, 1)

----------------------------------------------------------------------------
(* The state after the calls of example_usage.example_camera_matching on   *)
(* a scene holding a camera with Maya's default attributes at the origin:  *)
(* CameraMatcher.set_image, set_camera, and create_locator_pair for each   *)
(* of three correspondences.                                               *)

InitialMaya ==
    [camera |-> [kind |-> "transform",
                 translate |-> <<0, 0, 0>>,
                 rotate |-> <<0, 0, 0>>,
                 focalLength |-> DefaultFocalLength,
                 horizontalFilmOffset |-> 0,
                 verticalFilmOffset |-> 0,
                 horizontalFilmAperture |-> ToInch(DefaultApertureH),
                 verticalFilmAperture |-> ToInch(DefaultApertureV)],
     nodes |-> [n \in LocatorNames |->
                 [kind |-> "transform",
                  translate |-> CASE n = "cam_match_loc_001" -> <<0, 0, -10>>
                                  [] n = "cam_match_loc_002" -> <<1, 0, -10>>
                                  [] OTHER                   -> <<0, 1, -10>>]]]

InitialPairs ==
    << LocatorPair("cam_match_loc_001", <<960, 540>>, 1),
       LocatorPair("cam_match_loc_002", <<1147, 540>>, 2),
       LocatorPair("cam_match_loc_003", <<960, 353>>, 3) >>

\* CameraOptimizer.__init__ (progress_callback: one is set; pc, caller: where
\* a call of optimize stands)
CameraOptimizer(has_params, image_width, image_height) ==
    [has_params |-> has_params,
     image_width |-> image_width,
     image_height |-> image_height,
     iteration_count |-> 0,
     progress_callback |-> FALSE,
     pc |-> "idle",
     caller |-> "none",
     method |-> "none"]

\* CameraMatcher.__init__.  camera_params, optimizer_camera_params and
\* optimizer_locator_pairs tell objects apart: the n-th CameraParameters
\* constructed (0: None) that self.camera_params and self.optimizer.camera_params
\* are, and the list (1: self.locator_pairs, which is never rebound) that
\* the optimizer holds (0: no optimizer)
CameraMatcher ==
    [image_path |-> None,
     image_width |-> 0,
     image_height |-> 0,
     _next_pair_id |-> 1,
     camera_params |-> 0,
     optimizer_camera_params |-> 0,
     optimizer_locator_pairs |-> 0]

\* the matcher after set_image, set_camera and three create_locator_pair
InitialMatcher ==
    [CameraMatcher EXCEPT !.image_path = Some("reference.jpg"),
                          !.image_width = 1920,
                          !.image_height = 1080,
                          !._next_pair_id = 4,
                          !.camera_params = 1,
                          !.optimizer_camera_params = 1,
                          !.optimizer_locator_pairs = 1]

\* CameraMatcherUI.__init__: no worker yet, the optimize button enabled, the
\* progress bar hidden, no signal of a worker waiting to be delivered.
\* optimization_worker is where the thread of self.optimization_worker
\* stands: "none" (no worker), "started" (start() called), "solving" (inside
\* optimize_camera), "emitted" (optimization_finished emitted, run() not yet
\* left), "finished", "terminated".  method: the method the worker was made
\* with; emitted: how often the current worker has emitted
\* optimization_finished; running: the worker threads running on the
\* matcher; closed: closeEvent has been handled; initial_params: the
\* vector optimize() read when the worker's run entered the solver
CameraMatcherUI ==
    [optimization_worker |-> "none",
     method |-> "none",
     initial_params |-> <<>>,
     optimize_btn_enabled |-> TRUE,
     progress_bar_visible |-> FALSE,
     finished_pending |-> None,
     emitted |-> 0,
     running |-> 0,
     closed |-> FALSE]

NoCall == [op |-> "init", on |-> "none", err |-> "none", ret |-> None]

\* a call of op on a parameter name, a pair id or a point ("none": on none), the
\* error it raised and what it returned
Call(op, on, err, ret) == [op |-> op, on |-> on, err |-> err, ret |-> ret]

\* seen_invalid: the pairs on which is_valid returned False with the locator
\* gone from the scene; read_failed: the pairs on which a read of
\* world_position failed or delete_locator was called
\* evaluations: the objective evaluations the solver has made in the run in
\* progress; progress: the arguments of the call of the progress callback
\* made by the last of them, None when it made no call
NoHistory == [seen_invalid |-> {}, read_failed |-> {}, evaluations |-> 0, progress |-> None]

Init ==
    /\ maya = InitialMaya
    /\ camera_params = NewCameraParameters(InitialMaya, CameraName)
    /\ locator_pairs = InitialPairs
    /\ optimizer = CameraOptimizer(TRUE, 1920, 1080)
    /\ last = NoCall
    /\ history = NoHistory
    /\ matcher = InitialMatcher
    /\ ui = CameraMatcherUI

----------------------------------------------------------------------------
(* The parameter set's operations, as its callers (the UI handlers,        *)
(* example_usage, the optimizer) call them.                                *)

\* the names and values the callers of this model pass
ValueNames == {"translate_x", "translate_y"}
LockNames == {"translate_x", "translate_y", "focal_length"}
ConstraintNames == {"translate_x", "translate_y"}
ValInputs == {-1, 0, MaxVal}
MinInputs == {MaxBound}
MaxInputs == {0}
ConstraintInputs ==
    {ParameterConstraints(FALSE, lo, hi) :
        lo \in {None} \cup {Some(b) : b \in MinInputs},
        hi \in {None} \cup {Some(b) : b \in MaxInputs}}

SetParameterValue(name, v) ==
    /\ camera_params' = set_parameter_value(camera_params, name, v)
    /\ last' = Call("set_parameter_value", name, "none", None)
    /\ UNCHANGED <<maya, locator_pairs, optimizer, history>>

\* set_constraints(name, ParameterConstraints(...)): a newly constructed object
SetConstraintsNew(name, c) ==
    /\ camera_params' =
          set_constraints([camera_params EXCEPT !.objects[0] = c], name, 0)
    /\ last' = Call("set_constraints", name, "none", None)
    /\ UNCHANGED <<maya, locator_pairs, optimizer, history>>

\* set_constraints(name, c) with the object c already stored under other
\* (configure_optimization_parameters passes one object for several names)
SetConstraintsShared(name, other) ==
    /\ camera_params' =
          set_constraints(camera_params, name, camera_params._constraints[other])
    /\ last' = Call("set_constraints", name, "none", None)
    /\ UNCHANGED <<maya, locator_pairs, optimizer, history>>

LockParameter(name, locked) ==
    /\ camera_params' = lock_parameter(camera_params, name, locked)
    /\ last' = Call("lock_parameter", name, "none", None)
    /\ UNCHANGED <<maya, locator_pairs, optimizer, history>>

\* CameraMatcherUI._on_parameter_min_changed
_on_parameter_min_changed(cp, param_name, value) ==
    LET obj == cp._constraints[param_name]
    IN  set_constraints([cp EXCEPT !.objects[obj].min_value = Some(value)], param_name, obj)

\* CameraMatcherUI._on_parameter_max_changed
_on_parameter_max_changed(cp, param_name, value) ==
    LET obj == cp._constraints[param_name]
    IN  set_constraints([cp EXCEPT !.objects[obj].max_value = Some(value)], param_name, obj)

OnParameterMinChanged(name, value) ==
    /\ camera_params' = _on_parameter_min_changed(camera_params, name, value)
    /\ last' = Call("_on_parameter_min_changed", name, "none", None)
    /\ UNCHANGED <<maya, locator_pairs, optimizer, history>>

OnParameterMaxChanged(name, value) ==
    /\ camera_params' = _on_parameter_max_changed(camera_params, name, value)
    /\ last' = Call("_on_parameter_max_changed", name, "none", None)
    /\ UNCHANGED <<maya, locator_pairs, optimizer, history>>

\* the vectors callers pass to set_parameter_vector: the current vector with
\* the entry of one of names replaced by one of vals, one entry short, or one
\* entry long
TrialVectors(cp, names, vals) ==
    LET base == get_parameter_vector(cp)
        unlocked == get_unlocked_parameter_names(cp)
    IN  { [base EXCEPT ![i] = v] :
            i \in {j \in 1..Len(unlocked) : unlocked[j] \in names}, v \in vals }
        \cup { Append(base, 0) }
        \cup { SubSeq(base, 1, Len(base) - 1) }

SetParameterVector(values) ==
    LET r == set_parameter_vector(camera_params, values)
    IN  /\ camera_params' = r.cp
        /\ last' = Call("set_parameter_vector", "none", r.err, None)
        /\ UNCHANGED <<maya, locator_pairs, optimizer, history>>

\* set_parameter_vector(get_parameter_vector())
RoundTrip ==
    LET r == set_parameter_vector(camera_params, get_parameter_vector(camera_params))
    IN  /\ camera_params' = r.cp
        /\ last' = Call("round_trip", "none", r.err, None)
        /\ UNCHANGED <<maya, locator_pairs, optimizer, history>>

NextParams ==
    /\ UNCHANGED <<matcher, ui>>
    /\ \/ \E name \in ValueNames, v \in ValInputs : SetParameterValue(name, v)
       \/ \E name \in ConstraintNames, c \in ConstraintInputs : SetConstraintsNew(name, c)
       \/ \E name \in ConstraintNames, other \in ConstraintNames : SetConstraintsShared(name, other)
       \/ \E name \in LockNames, locked \in BOOLEAN : LockParameter(name, locked)
       \/ \E name \in ConstraintNames, v \in MinInputs : OnParameterMinChanged(name, v)
       \/ \E name \in ConstraintNames, v \in MaxInputs : OnParameterMaxChanged(name, v)
       \/ \E values \in TrialVectors(camera_params, ValueNames, ValInputs) : SetParameterVector(values)
       \/ RoundTrip

SpecParams == Init /\ [][NextParams]_vars

----------------------------------------------------------------------------
(* The operations of LocatorPair, as CameraMatcher, the UI and the         *)
(* optimizer call them, and what the user does to the scene in Maya        *)
(* meanwhile.                                                              *)

\* the pairs the operations below are called on, and their new positions
PairIds == {1, 2}
WorldPosInputs == {<<0, 0, -10>>, <<MaxVal, 0, -10>>}

PairOf(id) == locator_pairs[id]

\* pair.is_valid
IsValid(id) ==
    LET ret == is_valid(maya, PairOf(id))
    IN  /\ last' = Call("is_valid", id, "none", Some(ret))
        /\ history' = IF ~ret /\ ~objExists(maya, PairOf(id).locator_name)
                      THEN [history EXCEPT !.seen_invalid = @ \cup {id}]
                      ELSE history
        /\ UNCHANGED <<camera_params, maya, locator_pairs, optimizer>>

\* pair.world_position
WorldPosition(id) ==
    LET r == world_position(maya, PairOf(id))
    IN  /\ locator_pairs' = [locator_pairs EXCEPT ![id] = r.pair]
        /\ last' = Call("world_position", id, r.err, IF r.err = "none" THEN Some(r.ret) ELSE None)
        /\ history' = IF r.err # "none"
                      THEN [history EXCEPT !.read_failed = @ \cup {id}]
                      ELSE history
        /\ UNCHANGED <<camera_params, maya, optimizer>>

\* pair.update_locator_position(world_pos)
UpdateLocatorPosition(id, world_pos) ==
    LET r == update_locator_position(maya, PairOf(id), world_pos)
    IN  /\ locator_pairs' = [locator_pairs EXCEPT ![id] = r.pair]
        /\ maya' = r.maya
        /\ last' = Call("update_locator_position", id, r.err, None)
        /\ UNCHANGED <<camera_params, optimizer, history>>

\* pair.delete_locator()
DeleteLocator(id) ==
    LET r == delete_locator(maya, PairOf(id))
    IN  /\ locator_pairs' = [locator_pairs EXCEPT ![id] = r.pair]
        /\ maya' = r.maya
        /\ last' = Call("delete_locator", id, "none", None)
        /\ history' = [history EXCEPT !.read_failed = @ \cup {id}]
        /\ UNCHANGED <<camera_params, optimizer>>

\* the user deletes the node called name in Maya
MayaDelete(name) ==
    /\ objExists(maya, name)
    /\ maya' = [maya EXCEPT !.nodes[name].kind = "absent"]
    /\ last' = Call("maya_delete", "none", "none", None)
    /\ UNCHANGED <<camera_params, locator_pairs, optimizer, history>>

\* the user creates a node called name in Maya: a locator (a transform), or
\* a node of another type on which cmds.xform fails
MayaCreate(name, kind) ==
    /\ ~objExists(maya, name)
    /\ maya' = [maya EXCEPT !.nodes[name].kind = kind]
    /\ last' = Call("maya_create", "none", "none", None)
    /\ UNCHANGED <<camera_params, locator_pairs, optimizer, history>>

NextPairs ==
    /\ UNCHANGED <<matcher, ui>>
    /\ \/ \E id \in PairIds : IsValid(id)
       \/ \E id \in PairIds : WorldPosition(id)
       \/ \E id \in PairIds, world_pos \in WorldPosInputs : UpdateLocatorPosition(id, world_pos)
       \/ \E id \in PairIds : DeleteLocator(id)
       \/ \E id \in PairIds : MayaDelete(PairOf(id).locator_name)
       \/ \E id \in PairIds, kind \in {"transform", "other"} : MayaCreate(PairOf(id).locator_name, kind)

SpecPairs == Init /\ [][NextPairs]_vars

----------------------------------------------------------------------------
(* The projection routines, called on the first correspondence while the   *)
(* user moves, deletes and re-creates its locator and the camera.          *)

\* the pair projected and the points projected: in front of the camera (on
\* its axis, to the right, to the right and above), and in the plane of the
\* camera (camera-space z = 0)
ProjPairIds == {1}
ProjPoints == {<<0, 0, -10>>, <<MaxVal, 0, -10>>, <<MaxVal, 0, 0>>, <<MaxVal, MaxVal, -10>>}

\* pair.get_projected_coords(camera_params.camera_transform)
GetProjectedCoords(id) ==
    LET r == get_projected_coords(maya, PairOf(id), camera_params.camera_name)
    IN  /\ locator_pairs' = [locator_pairs EXCEPT ![id] = r.pair]
        /\ last' = Call("get_projected_coords", id, r.err, r.ret)
        /\ UNCHANGED <<camera_params, maya, optimizer, history>>

\* pair.get_reprojection_error(camera_transform, image_width, image_height)
GetReprojectionError(id) ==
    LET r == get_reprojection_error(maya, PairOf(id), camera_params.camera_name,
                                    optimizer.image_width, optimizer.image_height)
    IN  /\ locator_pairs' = [locator_pairs EXCEPT ![id] = r.pair]
        /\ last' = Call("get_reprojection_error", id, r.err, r.ret)
        /\ UNCHANGED <<camera_params, maya, optimizer, history>>

\* project_point(point_3d, ...) with the matrix and the attributes of the
\* camera in the scene
ProjectPoint(point_3d) ==
    LET r == project_point(point_3d, maya.camera.translate, maya.camera.rotate,
                           maya.camera.focalLength,
                           ToMm(maya.camera.horizontalFilmAperture),
                           ToMm(maya.camera.verticalFilmAperture),
                           ToMm(maya.camera.horizontalFilmOffset),
                           ToMm(maya.camera.verticalFilmOffset))
    IN  /\ objExists(maya, CameraName)
        /\ last' = Call("project_point", point_3d, r.err, r.ret)
        /\ UNCHANGED <<camera_params, maya, locator_pairs, optimizer, history>>

\* the pairs whose locator the user deletes through the tool
ErrPairIds == {2, 3}

\* optimizer.calculate_total_error()
CalculateTotalError ==
    LET r == calculate_total_error(optimizer, camera_params, maya, locator_pairs)
    IN  /\ locator_pairs' = r.pairs
        /\ last' = Call("calculate_total_error", "none", "none", r.ret)
        /\ UNCHANGED <<camera_params, maya, optimizer, history>>

\* optimizer.calculate_rms_error()
CalculateRmsError ==
    LET r == calculate_rms_error(optimizer, camera_params, maya, locator_pairs)
    IN  /\ locator_pairs' = r.pairs
        /\ last' = Call("calculate_rms_error", "none", "none", r.ret)
        /\ UNCHANGED <<camera_params, maya, optimizer, history>>

\* optimizer.get_individual_errors()
GetIndividualErrors ==
    LET r == get_individual_errors(optimizer, camera_params, maya, locator_pairs)
    IN  /\ locator_pairs' = r.pairs
        /\ last' = Call("get_individual_errors", "none", "none", r.ret)
        /\ UNCHANGED <<camera_params, maya, optimizer, history>>

\* the user deletes the camera in Maya, or undoes the deletion
MayaDeleteCamera ==
    /\ objExists(maya, CameraName)
    /\ maya' = [maya EXCEPT !.camera.kind = "absent"]
    /\ last' = Call("maya_delete", "none", "none", None)
    /\ UNCHANGED <<camera_params, locator_pairs, optimizer, history>>

MayaUndoDeleteCamera ==
    /\ ~objExists(maya, CameraName)
    /\ maya' = [maya EXCEPT !.camera.kind = "transform"]
    /\ last' = Call("maya_undo", "none", "none", None)
    /\ UNCHANGED <<camera_params, locator_pairs, optimizer, history>>

NextProj ==
    /\ UNCHANGED <<matcher, ui>>
    /\ \/ \E id \in ProjPairIds : GetProjectedCoords(id)
       \/ \E id \in ProjPairIds : GetReprojectionError(id)
       \/ \E point_3d \in ProjPoints : ProjectPoint(point_3d)
       \/ \E id \in ProjPairIds, world_pos \in ProjPoints : UpdateLocatorPosition(id, world_pos)
       \/ \E id \in ProjPairIds : MayaDelete(PairOf(id).locator_name)
       \/ \E id \in ProjPairIds, kind \in {"transform", "other"} : MayaCreate(PairOf(id).locator_name, kind)
       \/ MayaDeleteCamera
       \/ MayaUndoDeleteCamera
       \/ CalculateTotalError
       \/ CalculateRmsError
       \/ GetIndividualErrors
       \/ \E id \in ErrPairIds : DeleteLocator(id)

SpecProj == Init /\ [][NextProj]_vars

----------------------------------------------------------------------------
(* CameraMatcher: the operations that set the image and the camera, create *)
(* and remove correspondences and load a session, on a new matcher in a    *)
(* scene that holds the camera and no locator.  A state of the matcher is  *)
(* the record of the objects it holds.                                     *)

MatcherState ==
    [matcher |-> matcher, camera_params |-> camera_params, optimizer |-> optimizer,
     locator_pairs |-> locator_pairs, maya |-> maya]

\* self.optimizer = CameraOptimizer(self.camera_params, self.locator_pairs,
\*                                  self.image_width, self.image_height)
AttachOptimizer(s) ==
    [s EXCEPT !.optimizer = CameraOptimizer(TRUE, s.matcher.image_width, s.matcher.image_height),
              !.matcher.optimizer_camera_params = s.matcher.camera_params,
              !.matcher.optimizer_locator_pairs = 1]

\* CameraMatcher._update_optimizer
_update_optimizer(s) ==
    IF s.matcher.camera_params # 0 /\ s.matcher.image_width > 0 /\ s.matcher.image_height > 0
    THEN AttachOptimizer(s)
    ELSE s

\* CameraMatcher.set_image: the state after it and the error raised
set_image(s, image_path, exists, width, height) ==
    IF ~exists THEN [s |-> s, err |-> "FileNotFoundError"]
    ELSE LET s1 == [s EXCEPT !.matcher.image_path = Some(image_path),
                             !.matcher.image_width = width,
                             !.matcher.image_height = height]
         IN  [s |-> IF s1.optimizer # None /\ s1.matcher.camera_params # 0
                    THEN AttachOptimizer(s1) ELSE s1,
              err |-> "none"]

\* CameraMatcher.set_camera
set_camera(s, camera_name) ==
    IF ~objExists(s.maya, camera_name) THEN [s |-> s, err |-> "RuntimeError"]
    ELSE LET s1 == [s EXCEPT !.camera_params = NewCameraParameters(s.maya, camera_name),
                             !.matcher.camera_params = @ + 1]
         IN  [s |-> IF s1.matcher.image_width > 0 /\ s1.matcher.image_height > 0
                    THEN AttachOptimizer(s1) ELSE s1,
              err |-> "none"]

\* f"{self.locator_prefix}_{id:03d}"
LocatorNameOf(id) ==
    CASE id = 1 -> "cam_match_loc_001"
      [] id = 2 -> "cam_match_loc_002"
      [] id = 3 -> "cam_match_loc_003"
      [] id = 4 -> "cam_match_loc_004"
      [] OTHER  -> "cam_match_loc_00n"

\* the while loop of create_locator_pair: the first id from id on whose
\* locator name is free in the scene
RECURSIVE FreePairId(_, _)
FreePairId(m, id) ==
    IF objExists(m, LocatorNameOf(id)) THEN FreePairId(m, id + 1) ELSE id

\* CameraMatcher.create_locator_pair
create_locator_pair(s, pixel_x, pixel_y, world_pos) ==
    LET id == FreePairId(s.maya, s.matcher._next_pair_id)
        locator_name == LocatorNameOf(id)
    IN  _update_optimizer(
           [s EXCEPT !.maya.nodes[locator_name] = [kind |-> "transform", translate |-> world_pos],
                     !.locator_pairs = Append(@, LocatorPair(locator_name, <<pixel_x, pixel_y>>, id)),
                     !.matcher._next_pair_id = id + 1])

\* CameraMatcher.remove_locator_pair: the state after it and the value returned
remove_locator_pair(s, pair_id) ==
    LET found == {i \in 1..Len(s.locator_pairs) : s.locator_pairs[i].pair_id = pair_id}
    IN  IF found = {} THEN [s |-> s, ret |-> FALSE]
        ELSE LET i == CHOOSE j \in found : \A k \in found : j <= k
                 d == delete_locator(s.maya, s.locator_pairs[i])
             IN  [s |-> _update_optimizer(
                           [s EXCEPT !.maya = d.maya,
                                     !.locator_pairs = [j \in 1..(Len(@) - 1) |->
                                                           IF j < i THEN @[j] ELSE @[j + 1]]]),
                  ret |-> TRUE]

\* the loop of clear_all_pairs: pair.delete_locator() for each pair from i on
RECURSIVE DeleteLocatorsFrom(_, _, _)
DeleteLocatorsFrom(m, pairs, i) ==
    IF i > Len(pairs) THEN m
    ELSE DeleteLocatorsFrom(delete_locator(m, pairs[i]).maya, pairs, i + 1)

\* CameraMatcher.clear_all_pairs
clear_all_pairs(s) ==
    _update_optimizer([s EXCEPT !.maya = DeleteLocatorsFrom(s.maya, s.locator_pairs, 1),
                                !.locator_pairs = <<>>])

\* the loop of import_data over data['locator_pairs'], from entry i on
RECURSIVE ImportPairsFrom(_, _, _)
ImportPairsFrom(s, pairs_data, i) ==
    IF i > Len(pairs_data) THEN s
    ELSE LET pair_data == pairs_data[i]
             locator_name == pair_data.locator_name
         IN  IF objExists(s.maya, locator_name) /\ s.maya.nodes[locator_name].kind # "transform"
             THEN \* cmds.xform raises: except Exception: continue
                  ImportPairsFrom(s, pairs_data, i + 1)
             ELSE ImportPairsFrom(
                     [s EXCEPT !.maya.nodes[locator_name] =
                                   [kind |-> "transform", translate |-> pair_data.world_position],
                               !.locator_pairs =
                                   Append(@, LocatorPair(locator_name, pair_data.pixel_coords,
                                                         pair_data.pair_id)),
                               !.matcher._next_pair_id =
                                   IF pair_data.pair_id >= @ THEN pair_data.pair_id + 1 ELSE @],
                     pairs_data, i + 1)

\* CameraMatcher.import_data, data the content of the file
import_data(s, exists, data) ==
    IF ~exists THEN [s |-> s, err |-> "FileNotFoundError"]
    ELSE LET s1 == clear_all_pairs(s)
             s2 == IF data.image_path # None /\ data.image_width # 0 /\ data.image_height # 0
                   THEN [s1 EXCEPT !.matcher.image_path = data.image_path,
                                   !.matcher.image_width = data.image_width,
                                   !.matcher.image_height = data.image_height]
                   ELSE s1
             s3 == IF data.camera_name # None THEN set_camera(s2, data.camera_name[1]).s ELSE s2
         IN  [s |-> _update_optimizer(ImportPairsFrom(s3, data.locator_pairs, 1)),
              err |-> "none"]

\* the state of the matcher becomes s
Becomes(s) ==
    /\ matcher' = s.matcher
    /\ camera_params' = s.camera_params
    /\ optimizer' = s.optimizer
    /\ locator_pairs' = s.locator_pairs
    /\ maya' = s.maya

\* a bound of the model: CameraParameters objects constructed on one matcher
MaxCameras == 2

\* the arguments the operations are called with
ImageInputs == {<<"reference.jpg", TRUE, 1920, 1080>>, <<"empty.jpg", TRUE, 0, 0>>,
                <<"missing.jpg", FALSE, 1920, 1080>>}
CameraInputs == {CameraName, "missing_camera"}
PairDataInputs ==
    [pair_id |-> 2, locator_name |-> "cam_match_loc_002",
     pixel_coords |-> <<1147, 540>>, world_position |-> <<1, 0, -10>>]
ImportInputs ==
    {[image_path |-> Some("reference.jpg"), image_width |-> 1920, image_height |-> 1080,
      camera_name |-> Some(CameraName), locator_pairs |-> <<PairDataInputs>>],
     [image_path |-> None, image_width |-> 0, image_height |-> 0,
      camera_name |-> None, locator_pairs |-> <<>>]}

InitMatcher ==
    /\ maya = [InitialMaya EXCEPT !.nodes = [n \in LocatorNames |->
                                                [kind |-> "absent", translate |-> <<0, 0, 0>>]]]
    /\ camera_params = None
    /\ locator_pairs = <<>>
    /\ optimizer = None
    /\ last = NoCall
    /\ history = NoHistory
    /\ matcher = CameraMatcher
    /\ ui = CameraMatcherUI

SetImage(args) ==
    LET r == set_image(MatcherState, args[1], args[2], args[3], args[4])
    IN  /\ Becomes(r.s)
        /\ last' = Call("set_image", "none", r.err, None)
        /\ UNCHANGED <<history, ui>>

SetCamera(camera_name) ==
    LET r == set_camera(MatcherState, camera_name)
    IN  /\ matcher.camera_params < MaxCameras
        /\ Becomes(r.s)
        /\ last' = Call("set_camera", "none", r.err, None)
        /\ UNCHANGED <<history, ui>>

CreateLocatorPair ==
    /\ FreePairId(maya, matcher._next_pair_id) <= Cardinality(LocatorNames)
    /\ Becomes(create_locator_pair(MatcherState, 960, 540, <<0, 0, -10>>))
    /\ last' = Call("create_locator_pair", "none", "none", None)
    /\ UNCHANGED <<history, ui>>

RemoveLocatorPair(pair_id) ==
    LET r == remove_locator_pair(MatcherState, pair_id)
    IN  /\ Becomes(r.s)
        /\ last' = Call("remove_locator_pair", pair_id, "none", Some(r.ret))
        /\ UNCHANGED <<history, ui>>

ClearAllPairs ==
    /\ Becomes(clear_all_pairs(MatcherState))
    /\ last' = Call("clear_all_pairs", "none", "none", None)
    /\ UNCHANGED <<history, ui>>

ImportData(exists, data) ==
    LET r == import_data(MatcherState, exists, data)
    IN  /\ data.camera_name # None => matcher.camera_params < MaxCameras
        /\ Becomes(r.s)
        /\ last' = Call("import_data", "none", r.err, None)
        /\ UNCHANGED <<history, ui>>

\* the message of the error optimize_camera raises without an optimizer
NotInitialized == "Optimizer not initialized. Set camera and image first."

\* CameraMatcher.calculate_current_error
CalculateCurrentError ==
    LET r == calculate_rms_error(optimizer, camera_params, maya, locator_pairs)
    IN  /\ locator_pairs' = IF optimizer = None THEN locator_pairs ELSE r.pairs
        /\ last' = Call("calculate_current_error",
                        IF optimizer = None THEN "matcher" ELSE "optimizer",
                        "none", IF optimizer = None THEN Inf ELSE r.ret)
        /\ UNCHANGED <<camera_params, maya, optimizer, history, matcher, ui>>

----------------------------------------------------------------------------
(* Optimization runs.  A call of optimize() is entered (Optimize,          *)
(* OptimizeCamera), the solver then evaluates the objective up to          *)
(* MaxEvaluations times (SolverEvaluates) and returns (SolverReturns) or   *)
(* raises                                                                  *)
(* (SolverRaises).  Runs start after a set-up script has locked every      *)
(* parameter but translate_x and translate_y.                              *)

\* evaluations of _cost_function counted in one run
MaxEvaluations == 1

SetupLocked == <<"translate_z", "rotate_x", "rotate_y", "rotate_z",
                 "focal_length", "film_offset_x", "film_offset_y">>
RunLockNames == {"translate_x", "translate_y"}
MethodInputs == {"lm", "L-BFGS-B"}
\* the arguments of CameraOptimizer(...): has camera_params, image_width, image_height
OptimizerInputs == {<<TRUE, 1920, 1080>>, <<TRUE, 0, 1080>>, <<TRUE, 1920, 0>>,
                    <<FALSE, 1920, 1080>>}
SolverVals == {0, MaxVal}
ExternalNames == {"cam_match_loc_003"}

\* lock_parameter(name, True) for each of names, from names[i] on
RECURSIVE LockEach(_, _, _)
LockEach(cp, names, i) ==
    IF i > Len(names) THEN cp
    ELSE LockEach(lock_parameter(cp, names[i], TRUE), names, i + 1)

InitOpt ==
    /\ maya = InitialMaya
    /\ camera_params = LockEach(NewCameraParameters(InitialMaya, CameraName), SetupLocked, 1)
    /\ locator_pairs = InitialPairs
    /\ optimizer = CameraOptimizer(TRUE, 1920, 1080)
    /\ last = NoCall
    /\ history = NoHistory
    /\ matcher = InitialMatcher
    /\ ui = CameraMatcherUI

\* CameraOptimizer(camera_params or None, locator_pairs, image_width, image_height)
NewCameraOptimizer(args) ==
    /\ optimizer.pc = "idle"
    /\ optimizer' = CameraOptimizer(args[1], args[2], args[3])
    /\ last' = Call("CameraOptimizer", "none", "none", None)
    /\ UNCHANGED <<camera_params, maya, locator_pairs, history>>

RunLockParameter(name, locked) ==
    /\ optimizer.pc = "idle"
    /\ LockParameter(name, locked)

\* the run entered by a call that passed its checks
Entered(caller, method) ==
    [optimizer EXCEPT !.iteration_count = 0, !.pc = "solver",
                      !.caller = caller, !.method = method]

\* optimizer.optimize(method), called directly
Optimize(method) ==
    LET err == optimize(optimizer, camera_params, maya, locator_pairs)
    IN  /\ optimizer.pc = "idle"
        /\ optimizer' = IF err = "none" THEN Entered("optimize", method) ELSE optimizer
        /\ last' = Call("optimize", "none", err, None)
        /\ UNCHANGED <<camera_params, maya, locator_pairs, history>>

\* matcher.optimize_camera(method)
OptimizeCamera(method) ==
    LET err == optimize_camera(optimizer, camera_params, maya, locator_pairs)
    IN  /\ optimizer.pc = "idle"
        /\ optimizer' = IF err = "none" THEN Entered("optimize_camera", method) ELSE optimizer
        /\ last' = Call("optimize_camera", "none", err, None)
        /\ UNCHANGED <<camera_params, maya, locator_pairs, history>>

\* optimizer.set_progress_callback(callback), as OptimizationWorker.run calls
\* it before optimize_camera
SetProgressCallback ==
    /\ optimizer.pc = "idle"
    /\ optimizer' = [optimizer EXCEPT !.progress_callback = TRUE]
    /\ last' = Call("set_progress_callback", "none", "none", None)
    /\ UNCHANGED <<camera_params, maya, locator_pairs, history>>

\* the run left, by a return or by an exception
Left == [optimizer EXCEPT !.pc = "idle", !.caller = "none", !.method = "none"]

\* what has been observed, once the run is over
RunOver == [history EXCEPT !.evaluations = 0, !.progress = None]

\* the vectors the solver evaluates and returns: the current one with one
\* entry replaced
SolverVectors(cp) ==
    LET base == get_parameter_vector(cp)
    IN  { [base EXCEPT ![i] = v] : i \in 1..Len(base), v \in SolverVals }

\* the solver calls _objective_function(params) (least_squares), or
\* _cost_function(params) (minimize)
SolverEvaluates(params) ==
    LET r == _objective_function(optimizer, camera_params, maya, locator_pairs, params)
        least_squares == optimizer.method \in LeastSquaresMethods
    IN  /\ optimizer.pc = "solver"
        /\ history.evaluations < MaxEvaluations
        /\ camera_params' = r.cp
        /\ locator_pairs' = r.pairs
        /\ optimizer' = IF r.err # "none" THEN Left
                        ELSE IF least_squares THEN optimizer
                        ELSE [optimizer EXCEPT !.iteration_count = @ + 1]
        /\ last' = IF r.err # "none" THEN Call("optimize_raises", "none", "RuntimeError", None)
                   ELSE IF least_squares THEN Call("_objective_function", "none", "none", r.ret)
                   ELSE Call("_cost_function", "none", "none", Some(SumSquares(r.ret[1])))
        /\ history' = IF r.err # "none" THEN RunOver
                      ELSE [history EXCEPT
                              !.evaluations = @ + 1,
                              !.progress =
                                 IF ~least_squares /\ optimizer.progress_callback
                                 THEN Some(<<optimizer.iteration_count + 1,
                                             SumSquares(r.ret[1])>>)
                                 ELSE None]
        /\ UNCHANGED maya

\* a return of the solver after which optimize writes x back only when
\* success, and otherwise leaves the values of the last evaluation
SolverReturns_rollback(x, success) ==
    LET w == IF success THEN set_parameter_vector(camera_params, x)
             ELSE [cp |-> camera_params, err |-> "none"]
        applied == apply_to_maya(w.cp, maya)
        apply == w.err = "none" /\ success /\ optimizer.caller = "optimize_camera"
    IN  /\ optimizer.pc = "solver"
        /\ camera_params' = w.cp
        /\ maya' = IF apply THEN applied.maya ELSE maya
        /\ optimizer' = [optimizer EXCEPT !.pc = "idle", !.caller = "none", !.method = "none"]
        /\ last' = IF w.err # "none"
                   THEN Call("optimize_raises", "none", "RuntimeError", None)
                   ELSE IF apply /\ applied.err # "none"
                   THEN Call("optimize_camera_raises", "none", applied.err, None)
                   ELSE Call("optimize_returns", "none", "none",
                             Some([success |-> success, x |-> x]))
        /\ history' = RunOver
        /\ UNCHANGED locator_pairs

\* the solver returns result.x = x and result.success = success: optimize
\* writes x back and returns; optimize_camera then applies the parameters
\* to the Maya camera when success
SolverReturns(x, success) ==
    LET w == set_parameter_vector(camera_params, x)
        applied == apply_to_maya(w.cp, maya)
        apply == w.err = "none" /\ success /\ optimizer.caller = "optimize_camera"
    IN  /\ optimizer.pc = "solver"
        /\ camera_params' = w.cp
        /\ maya' = IF apply THEN applied.maya ELSE maya
        /\ optimizer' = Left
        /\ last' = IF w.err # "none"
                   THEN Call("optimize_raises", "none", "RuntimeError", None)
                   ELSE IF apply /\ applied.err # "none"
                   THEN Call("optimize_camera_raises", "none", applied.err, None)
                   ELSE Call("optimize_returns", "none", "none",
                             Some([success |-> success, x |-> x]))
        /\ history' = RunOver
        /\ UNCHANGED locator_pairs

\* the solver raises: optimize raises RuntimeError("Optimization failed")
SolverRaises ==
    /\ optimizer.pc = "solver"
    /\ optimizer' = Left
    /\ last' = Call("optimize_raises", "none", "RuntimeError", None)
    /\ history' = RunOver
    /\ UNCHANGED <<camera_params, maya, locator_pairs>>

NextOpt ==
    /\ UNCHANGED <<matcher, ui>>
    /\ \/ \E args \in OptimizerInputs : NewCameraOptimizer(args)
       \/ \E name \in RunLockNames, locked \in BOOLEAN : RunLockParameter(name, locked)
       \/ \E method \in MethodInputs : Optimize(method)
       \/ \E method \in MethodInputs : OptimizeCamera(method)
       \/ \E params \in SolverVectors(camera_params) : SolverEvaluates(params)
       \/ \E x \in SolverVectors(camera_params), success \in BOOLEAN : SolverReturns(x, success)
       \/ SolverRaises
       \/ SetProgressCallback
       \/ \E name \in ExternalNames : MayaDelete(name)
       \/ \E name \in ExternalNames, kind \in {"transform", "other"} : MayaCreate(name, kind)

SpecOpt == InitOpt /\ [][NextOpt]_vars

----------------------------------------------------------------------------
(* A whole call of optimize_camera / optimize, from the checks of the      *)
(* setup to the return or the exception, as the callers of CameraMatcher   *)
(* see it.                                                                 *)

\* least_squares(fun, x0, method='lm', bounds=...) raises ValueError before
\* it iterates when a bound is finite ("Method 'lm' doesn't support bounds")
\* or when there are fewer residuals than variables
lm_rejects(bounds, n_residuals) ==
    \/ \E i \in 1..Len(bounds[1]) : bounds[1][i] # NegInf \/ bounds[2][i] # PosInf
    \/ n_residuals < Len(bounds[1])

\* the outcome of the part of optimize inside its try statement, for the
\* solver choosing to return x with success, or to raise
SolverOutcome(method, x, success, raises) ==
    LET bounds == _get_parameter_bounds(camera_params)
        n_residuals == 2 * Len(valid_pairs(maya, locator_pairs))
        w == set_parameter_vector(camera_params, x)
    IN  IF (method = "lm" /\ lm_rejects(bounds, n_residuals)) \/ raises \/ w.err # "none"
        THEN [cp |-> camera_params, err |-> "RuntimeError", ret |-> Some("Optimization failed")]
        ELSE [cp |-> w.cp, err |-> "none",
              ret |-> Some([success |-> success, x |-> x,
                            final_error |->
                               SumSquares(_objective_function(optimizer, camera_params, maya,
                                                              locator_pairs, x).ret[1])])]

\* matcher.optimize_camera(method) (through_matcher) or
\* matcher.optimizer.optimize(method)
WholeOptimize(method, through_matcher, x, success, raises) ==
    LET op == IF through_matcher THEN "optimize_camera" ELSE "optimize"
        setup == IF through_matcher
                 THEN optimize_camera(optimizer, camera_params, maya, locator_pairs)
                 ELSE optimize(optimizer, camera_params, maya, locator_pairs)
        o == SolverOutcome(method, x, success, raises)
        apply == through_matcher /\ o.err = "none" /\ success
        applied == apply_to_maya(o.cp, maya)
    IN  IF optimizer = None
        THEN /\ through_matcher
             /\ last' = Call(op, "none", "RuntimeError", Some(NotInitialized))
             /\ UNCHANGED <<camera_params, maya, optimizer>>
        ELSE IF setup # "none"
        THEN /\ last' = Call(op, "none", setup, Some("Optimization setup invalid"))
             /\ UNCHANGED <<camera_params, maya, optimizer>>
        ELSE /\ camera_params' = o.cp
             /\ maya' = IF apply /\ applied.err = "none" THEN applied.maya ELSE maya
             /\ optimizer' = [optimizer EXCEPT !.iteration_count = 0]
             /\ last' = IF apply /\ applied.err # "none"
                        THEN Call(op, "none", applied.err, None)
                        ELSE Call(op, "none", o.err, o.ret)

\* matcher.optimize_camera(method) on the matcher
MatcherOptimizeCamera(method) ==
    /\ IF optimizer = None \/ camera_params = None
       THEN WholeOptimize(method, TRUE, <<>>, FALSE, FALSE)
       ELSE \E x \in SolverVectors(camera_params), success \in BOOLEAN, raises \in BOOLEAN :
               WholeOptimize(method, TRUE, x, success, raises)
    /\ UNCHANGED <<locator_pairs, history, matcher, ui>>

NextMatcher ==
    \/ \E args \in ImageInputs : SetImage(args)
    \/ \E camera_name \in CameraInputs : SetCamera(camera_name)
    \/ CreateLocatorPair
    \/ \E pair_id \in 1..2 : RemoveLocatorPair(pair_id)
    \/ ClearAllPairs
    \/ \E exists \in BOOLEAN, data \in ImportInputs : ImportData(exists, data)
    \/ CalculateCurrentError
    \/ MatcherOptimizeCamera("lm")

SpecMatcher == InitMatcher /\ [][NextMatcher]_vars

----------------------------------------------------------------------------
(* Recovering a pose: four correspondences are made by projecting four     *)
(* known points through the camera at a known pose, the camera is then     *)
(* moved by (1, 0, 0), a CameraParameters with the default constraints is  *)
(* read from it, and optimize('lm') is called.                             *)

\* the known points (their pixels are whole numbers for the poses below) and
\* the known poses
KnownPoints == << <<-3, -2, -10>>, <<3, -2, -10>>, <<-3, 2, -10>>, <<3, 2, -10>>,
                  <<0, 0, -10>>, <<3, 0, -10>> >>
KnownPoses == {<<0, 0, 0>>, <<3, 0, 0>>, <<0, 2, 0>>}
Perturbation == <<1, 0, 0>>

\* the pixel the point projects to through the default camera at pose t
PixelThrough(point, t) ==
    LET ndc == ProjectCameraSpace(CameraSpacePoint(point, t, <<0, 0, 0>>),
                                  DefaultFocalLength, DefaultApertureH, DefaultApertureV, 0, 0)
        pixel == NdcToPixel(ndc, 1920, 1080)
    IN  <<pixel[1][1] \div pixel[1][2], pixel[2][1] \div pixel[2][2]>>

\* the scene and the pairs for the points chosen and the pose t
RecoverMaya(chosen, t) ==
    [InitialMaya EXCEPT
        !.camera.translate = <<t[1] + Perturbation[1], t[2] + Perturbation[2],
                               t[3] + Perturbation[3]>>,
        !.nodes = [n \in {LocatorNameOf(i) : i \in 1..4} |->
                     [kind |-> "transform",
                      translate |-> KnownPoints[chosen[CHOOSE i \in 1..4 : LocatorNameOf(i) = n]]]]]
RecoverPairs(chosen, t) ==
    [i \in 1..4 |-> LocatorPair(LocatorNameOf(i), PixelThrough(KnownPoints[chosen[i]], t), i)]

InitRecover ==
    \E t \in KnownPoses :
    \E chosen \in {c \in [1..4 -> 1..Len(KnownPoints)] : \A i \in 1..3 : c[i] < c[i + 1]} :
        /\ maya = RecoverMaya(chosen, t)
        /\ camera_params = NewCameraParameters(RecoverMaya(chosen, t), CameraName)
        /\ locator_pairs = RecoverPairs(chosen, t)
        /\ optimizer = CameraOptimizer(TRUE, 1920, 1080)
        /\ last = NoCall
        /\ history = NoHistory
        /\ matcher = [InitialMatcher EXCEPT !._next_pair_id = 5]
        /\ ui = CameraMatcherUI

\* optimizer.optimize('lm')
RecoverOptimize ==
    /\ \E x \in SolverVectors(camera_params), success \in BOOLEAN, raises \in BOOLEAN :
          WholeOptimize("lm", FALSE, x, success, raises)
    /\ UNCHANGED <<locator_pairs, history, matcher, ui>>

NextRecover ==
    \/ RecoverOptimize
    \/ CalculateTotalError /\ UNCHANGED <<matcher, ui>>
    \/ CalculateRmsError /\ UNCHANGED <<matcher, ui>>
    \/ GetIndividualErrors /\ UNCHANGED <<matcher, ui>>

SpecRecover == InitRecover /\ [][NextRecover]_vars

----------------------------------------------------------------------------
(* The window.  The handlers of CameraMatcherUI run one at a time on the   *)
(* GUI thread; the steps of an OptimizationWorker run on its own thread    *)
(* and interleave with them.  optimization_finished is delivered through   *)
(* the event queue of the GUI thread: ui.finished_pending holds the        *)
(* arguments of an emission not yet handled, and a click that is handled   *)
(* after a worker has finished was queued behind that worker's signal.     *)
(* While a run is inside the solver, the variable optimizer is the         *)
(* optimizer the run was entered on: a handler that gives the matcher a    *)
(* new CameraOptimizer (same parameter set, list and dimensions here)      *)
(* leaves the run on the old one.                                          *)

UIMethods == {"lm", "L-BFGS-B"}
UILockNames == {"translate_y"}
UIValueNames == {"translate_x"}
UIValues == {MaxVal}
UIMinValues == {0}

\* QThread.isRunning of self.optimization_worker
isRunning(u) == u.optimization_worker \in {"started", "solving", "emitted"}

\* CameraMatcherUI._update_ui_state: the optimize button
_update_ui_state(u, mt, pairs) ==
    [u EXCEPT !.optimize_btn_enabled =
                 mt.image_path # None /\ mt.camera_params # 0 /\ Len(pairs) > 0]

\* an _on_optimize without the check of a running worker
_on_optimize_unguarded(u, opt, cp, m, pairs, method) ==
    IF opt = None THEN [ui |-> u, ret |-> "not initialized"]
    ELSE IF validate_setup(opt, cp, m, pairs) # "Setup is valid"
    THEN [ui |-> u, ret |-> "invalid"]
    ELSE [ui |-> [u EXCEPT !.optimization_worker = "started",
                           !.method = method,
                           !.optimize_btn_enabled = FALSE,
                           !.progress_bar_visible = TRUE,
                           !.emitted = 0,
                           !.running = IF @ < 2 THEN @ + 1 ELSE @],
          ret |-> "started"]

\* CameraMatcherUI._on_optimize: the window after it and what it did
_on_optimize(u, opt, cp, m, pairs, method) ==
    IF isRunning(u) THEN [ui |-> u, ret |-> "ignored"]
    ELSE IF opt = None THEN [ui |-> u, ret |-> "not initialized"]
    ELSE IF validate_setup(opt, cp, m, pairs) # "Setup is valid"
    THEN [ui |-> u, ret |-> "invalid"]
    ELSE [ui |-> [u EXCEPT !.optimization_worker = "started",
                           !.method = method,
                           !.optimize_btn_enabled = FALSE,
                           !.progress_bar_visible = TRUE,
                           !.emitted = 0,
                           !.running = @ + 1],
          ret |-> "started"]

\* self.optimization_finished.emit(*args)
Emit(u, args) ==
    [u EXCEPT !.finished_pending = Some(args), !.emitted = @ + 1,
              !.optimization_worker = "emitted", !.initial_params = <<>>]

\* a run() without the except clause: an exception ends the thread
run_without_except(u, err, result) ==
    IF err # "none"
    THEN [u EXCEPT !.optimization_worker = "finished", !.running = @ - 1,
                   !.initial_params = <<>>]
    ELSE Emit(u, result)

\* the end of OptimizationWorker.run: optimize_camera returned result, or
\* raised err
run(u, err, result) ==
    IF err # "none" THEN Emit(u, <<FALSE, Inf, 0>>) ELSE Emit(u, result)

\* the vectors the solver of the worker's run evaluates and returns: the
\* initial one with one entry replaced
RunVectors(initial_params) ==
    { [initial_params EXCEPT ![i] = v] : i \in 1..Len(initial_params), v \in SolverVals }

\* a matcher state s made by a handler: the run in the solver stays on its
\* optimizer
KeepRun(s) == IF optimizer.pc = "solver" THEN [s EXCEPT !.optimizer = optimizer] ELSE s

InitUI ==
    /\ maya = InitialMaya
    /\ camera_params = LockEach(NewCameraParameters(InitialMaya, CameraName), SetupLocked, 1)
    /\ locator_pairs = InitialPairs
    /\ optimizer = CameraOptimizer(TRUE, 1920, 1080)
    /\ last = NoCall
    /\ history = NoHistory
    /\ matcher = InitialMatcher
    /\ ui = CameraMatcherUI

\* a click on the optimize button
OnOptimize(method) ==
    LET r == _on_optimize(ui, optimizer, camera_params, maya, locator_pairs, method)
    IN  /\ ~ui.closed
        /\ ui.optimize_btn_enabled
        /\ ui.finished_pending = None \/ isRunning(ui)
        /\ ui' = r.ui
        /\ last' = Call("_on_optimize", "none", "none", Some(<<r.ret>>))
        /\ UNCHANGED <<camera_params, maya, locator_pairs, optimizer, history, matcher>>

\* OptimizationWorker.run, up to the call of the solver
WorkerRun ==
    LET err == optimize_camera(optimizer, camera_params, maya, locator_pairs)
    IN  /\ ui.optimization_worker = "started"
        /\ optimizer' = [IF err = "none" THEN Entered("optimize_camera", ui.method)
                         ELSE optimizer EXCEPT !.progress_callback = TRUE]
        /\ ui' = IF err = "none"
                 THEN [ui EXCEPT !.optimization_worker = "solving",
                                 !.initial_params = get_parameter_vector(camera_params)]
                 ELSE run(ui, err, <<>>)
        /\ last' = Call("optimize_camera", "none", err, None)
        /\ UNCHANGED <<camera_params, maya, locator_pairs, history, matcher>>

\* the solver of the worker's run evaluates the objective
WorkerEvaluates(params) ==
    /\ ui.optimization_worker = "solving"
    /\ SolverEvaluates(params)
    /\ ui' = IF last'.err # "none" THEN run(ui, last'.err, <<>>) ELSE ui
    /\ UNCHANGED matcher

\* the solver of the worker's run returns result.x = x and result.success =
\* success: optimize writes x back, optimize_camera applies the parameters
\* to the Maya camera when success, and returns or raises
WorkerReturns(x, success) ==
    LET w == set_parameter_vector(camera_params, x)
        applied == apply_to_maya(w.cp, maya)
        apply == w.err = "none" /\ success
        err == IF w.err # "none" THEN "RuntimeError"
               ELSE IF apply THEN applied.err ELSE "none"
        r == _objective_function(optimizer, camera_params, maya, locator_pairs, x)
        final_error == IF r.err = "none" THEN SumSquares(r.ret[1]) ELSE Inf
    IN  /\ ui.optimization_worker = "solving"
        /\ optimizer.pc = "solver"
        /\ camera_params' = w.cp
        /\ maya' = IF apply THEN applied.maya ELSE maya
        /\ optimizer' = Left
        /\ history' = RunOver
        /\ last' = Call("optimize_camera_returns", "none", err, None)
        /\ ui' = run(ui, err, <<success, final_error, history.evaluations>>)
        /\ UNCHANGED <<locator_pairs, matcher>>

\* the solver of the worker's run raises
WorkerRaises ==
    /\ ui.optimization_worker = "solving"
    /\ SolverRaises
    /\ ui' = run(ui, last'.err, <<>>)
    /\ UNCHANGED matcher

\* run() is left and the thread ends
WorkerExits ==
    /\ ui.optimization_worker = "emitted"
    /\ ui' = [ui EXCEPT !.optimization_worker = "finished", !.running = @ - 1]
    /\ UNCHANGED <<camera_params, maya, locator_pairs, optimizer, last, history, matcher>>

\* CameraMatcherUI._on_optimization_finished, called with the arguments of
\* the emission
OnOptimizationFinished ==
    /\ ~ui.closed
    /\ ui.finished_pending # None
    /\ ui' = _update_ui_state([ui EXCEPT !.optimize_btn_enabled = TRUE,
                                         !.progress_bar_visible = FALSE,
                                         !.finished_pending = None],
                              matcher, locator_pairs)
    /\ last' = Call("_on_optimization_finished", "none", "none", ui.finished_pending)
    /\ UNCHANGED <<camera_params, maya, locator_pairs, optimizer, history, matcher>>

\* CameraMatcherUI._update_camera_info, on the timeout of update_timer
UpdateCameraInfo ==
    /\ ~ui.closed
    /\ matcher.camera_params # 0
    /\ camera_params' = _update_from_maya(camera_params, maya).cp
    /\ last' = Call("_update_camera_info", "none", "none", None)
    /\ UNCHANGED <<maya, locator_pairs, optimizer, history, matcher, ui>>

\* CameraMatcherUI._on_parameter_value_changed
OnParameterValueChanged(name, value) ==
    LET cp == set_parameter_value(camera_params, name, value)
    IN  /\ ~ui.closed
        /\ matcher.camera_params # 0
        /\ camera_params' = cp
        /\ maya' = apply_to_maya(cp, maya).maya
        /\ last' = Call("_on_parameter_value_changed", name, "none", None)
        /\ UNCHANGED <<locator_pairs, optimizer, history, matcher, ui>>

\* CameraMatcherUI._on_parameter_lock_changed
OnParameterLockChanged(name, locked) ==
    /\ ~ui.closed
    /\ matcher.camera_params # 0
    /\ camera_params' = lock_parameter(camera_params, name, locked)
    /\ last' = Call("_on_parameter_lock_changed", name, "none", None)
    /\ UNCHANGED <<maya, locator_pairs, optimizer, history, matcher, ui>>

\* CameraMatcherUI._on_load_image, the same image chosen again
OnLoadImage ==
    LET s == set_image(MatcherState, "reference.jpg", TRUE, 1920, 1080).s
    IN  /\ ~ui.closed
        /\ Becomes(KeepRun(s))
        /\ ui' = _update_ui_state(ui, s.matcher, s.locator_pairs)
        /\ last' = Call("_on_load_image", "none", "none", None)
        /\ UNCHANGED history

\* CameraMatcherUI._on_clear_pairs, answered with Yes
OnClearPairs ==
    LET s == clear_all_pairs(MatcherState)
    IN  /\ ~ui.closed
        /\ Len(locator_pairs) > 0
        /\ Becomes(KeepRun(s))
        /\ ui' = _update_ui_state(ui, s.matcher, s.locator_pairs)
        /\ last' = Call("_on_clear_pairs", "none", "none", None)
        /\ UNCHANGED history

\* CameraMatcherUI.closeEvent
closeEvent ==
    /\ ~ui.closed
    /\ ui' = [ui EXCEPT !.closed = TRUE,
                        !.optimization_worker = IF isRunning(ui) THEN "terminated" ELSE @,
                        !.running = IF isRunning(ui) THEN @ - 1 ELSE @]
    /\ last' = Call("closeEvent", "none", "none", None)
    /\ UNCHANGED <<camera_params, maya, locator_pairs, optimizer, history, matcher>>

\* the steps of the worker thread
Worker ==
    \/ WorkerRun
    \/ WorkerRaises
    \/ WorkerExits
    \/ \E params \in RunVectors(ui.initial_params) : WorkerEvaluates(params)
    \/ \E x \in RunVectors(ui.initial_params), success \in BOOLEAN : WorkerReturns(x, success)

NextUI ==
    \/ \E method \in UIMethods : OnOptimize(method)
    \/ WorkerRun
    \/ \E params \in RunVectors(ui.initial_params) : WorkerEvaluates(params)
    \/ \E x \in RunVectors(ui.initial_params), success \in BOOLEAN : WorkerReturns(x, success)
    \/ WorkerRaises
    \/ WorkerExits
    \/ OnOptimizationFinished
    \/ UpdateCameraInfo
    \/ \E name \in UIValueNames, value \in UIValues : OnParameterValueChanged(name, value)
    \/ \E name \in UILockNames, locked \in BOOLEAN : OnParameterLockChanged(name, locked)
    \/ \E name \in UIValueNames, value \in UIMinValues :
          ~ui.closed /\ OnParameterMinChanged(name, value) /\ UNCHANGED <<matcher, ui>>
    \/ OnLoadImage
    \/ OnClearPairs
    \/ closeEvent

SpecUI == InitUI /\ [][NextUI]_vars

\* where the worker thread stands (each of its steps changes it), and
\* whether a signal is waiting in the event queue
WorkerProgress == <<ui.optimization_worker, history.evaluations>>
SignalQueued == ui.finished_pending # None

\* the worker thread is scheduled as long as it can take a step, and the
\* event loop of the GUI thread delivers a queued signal
SpecUILive ==
    /\ InitUI
    /\ [][NextUI]_vars
    /\ WF_WorkerProgress(Worker)
    /\ WF_SignalQueued(OnOptimizationFinished)

----------------------------------------------------------------------------
(* Properties of the parameter set (checked under SpecParams).             *)

\* the unlocked names, read from the stored objects
UnlockedSet(cp) == {n \in ParamNameSet : ~cp.objects[cp._constraints[n]].is_locked}

\* the place of name n among the unlocked names in canonical order
Rank(cp, n) == Cardinality({m \in UnlockedSet(cp) : IndexOf(m) < IndexOf(n)}) + 1

\* the value stored under name n respects the bounds stored under n
WithinBounds(cp, n) ==
    LET c == cp.objects[cp._constraints[n]]
        value == get_parameter_value(cp, n)
    IN  /\ c.min_value # None => value >= c.min_value[1]
        /\ c.max_value # None => value <= c.max_value[1]

\* seq without its entry i
RemoveAt(seq, i) == [j \in 1..(Len(seq) - 1) |-> IF j < i THEN seq[j] ELSE seq[j + 1]]

\* C6: after set_value(name, v) returns, get_value(name) is >= min_value
\* whenever min_value is present and <= max_value whenever max_value is
\* present, for the constraint stored for name.
C6_SetValueWithinBounds ==
    last.op = "set_parameter_value" => WithinBounds(camera_params, last.on)

\* C7: in every lock state, to_vector, from_vector and the two bound arrays
\* use the canonical names filtered to the unlocked ones, in canonical order:
\* entry Rank(n) of to_vector is the value of n, lower/upper[Rank(n)] are the
\* min/max of n (minus/plus infinity when absent), and from_vector writes
\* entry Rank(n), clamped, to n.
C7_SameOrderEverywhere ==
    LET cp == camera_params
        k == Cardinality(UnlockedSet(cp))
        vec == get_parameter_vector(cp)
        bounds == _get_parameter_bounds(cp)
    IN  /\ Len(vec) = k
        /\ Len(bounds[1]) = k
        /\ Len(bounds[2]) = k
        /\ \A n \in UnlockedSet(cp) :
              LET c == cp.objects[cp._constraints[n]]
              IN  /\ vec[Rank(cp, n)] = get_parameter_value(cp, n)
                  /\ bounds[1][Rank(cp, n)] =
                        IF c.min_value = None THEN NegInf ELSE Fin(c.min_value[1])
                  /\ bounds[2][Rank(cp, n)] =
                        IF c.max_value = None THEN PosInf ELSE Fin(c.max_value[1])
        /\ \A values \in TrialVectors(cp, ParamNameSet, ValInputs) :
              Len(values) = k =>
                 LET r == set_parameter_vector(cp, values)
                 IN  /\ r.err = "none"
                     /\ UnlockedSet(r.cp) = UnlockedSet(cp)
                     /\ \A n \in UnlockedSet(cp) :
                           get_parameter_value(r.cp, n) =
                              clamp_value(cp.objects[cp._constraints[n]],
                                          values[Rank(cp, n)])

C7_Witness ==
    /\ last.op = "set_parameter_vector"
    /\ last.err = "none"
    /\ is_parameter_locked(camera_params, "translate_x")
    /\ ~is_parameter_locked(camera_params, "translate_y")
    /\ get_constraints(camera_params, "translate_y").min_value # None

\* C8: from_vector(values) fails with a count-mismatch error whenever
\* len(values) differs from the number of unlocked parameters, and then no
\* parameter value, lock or bound is changed.
C8_Mismatch ==
    \A values \in TrialVectors(camera_params, ParamNameSet, ValInputs) \cup {<<>>} :
        LET r == set_parameter_vector(camera_params, values)
        IN  Len(values) # Cardinality(UnlockedSet(camera_params)) =>
               r.err = "ValueError" /\ r.cp = camera_params

C8_NoPartialWrite ==
    (last'.op = "set_parameter_vector" /\ last'.err = "ValueError")
        => camera_params' = camera_params

C8_CountMismatchNoWrite == []C8_Mismatch /\ [][C8_NoPartialWrite]_vars

C8_Witness ==
    /\ last.op = "set_parameter_vector"
    /\ last.err = "ValueError"
    /\ Cardinality(UnlockedSet(camera_params)) < Len(param_names)

\* C9: when each unlocked value satisfies its bounds,
\* from_vector(to_vector()) leaves every parameter value (unlocked and
\* locked) exactly as it was.
C9_RoundTripIdentity ==
    [][(/\ last'.op = "round_trip"
        /\ \A n \in UnlockedSet(camera_params) : WithinBounds(camera_params, n))
       => (last'.err = "none" /\ camera_params' = camera_params)]_vars

C9_Witness ==
    /\ last.op = "round_trip"
    /\ \A n \in UnlockedSet(camera_params) : WithinBounds(camera_params, n)
    /\ get_constraints(camera_params, "translate_x").min_value # None
    /\ camera_params._translation[1] > 0
    /\ ~is_parameter_locked(camera_params, "translate_x")
    /\ is_parameter_locked(camera_params, "translate_y")

\* C10: locking an unlocked parameter removes exactly one entry, its own,
\* from to_vector() and from both bound arrays; the remaining entries keep
\* their order, values and bounds.
C10_LockRemovesOneEntry ==
    [][(/\ last'.op = "lock_parameter"
        /\ ~is_parameter_locked(camera_params, last'.on)
        /\ is_parameter_locked(camera_params', last'.on))
       => LET i == Rank(camera_params, last'.on)
          IN  /\ get_parameter_vector(camera_params') =
                    RemoveAt(get_parameter_vector(camera_params), i)
              /\ _get_parameter_bounds(camera_params')[1] =
                    RemoveAt(_get_parameter_bounds(camera_params)[1], i)
              /\ _get_parameter_bounds(camera_params')[2] =
                    RemoveAt(_get_parameter_bounds(camera_params)[2], i)]_vars

\* the calls that end in set_constraints(name, c)
SetConstraintsOps ==
    {"set_constraints", "_on_parameter_min_changed", "_on_parameter_max_changed"}

\* C11: set_constraint(name, c) re-clamps the current value of name: after
\* it returns, get_value(name) equals c.clamp(old value), and the value of
\* every other parameter is unchanged.
C11_SetConstraintsReclamps ==
    [][last'.op \in SetConstraintsOps
       => /\ get_parameter_value(camera_params', last'.on) =
                clamp_value(get_constraints(camera_params', last'.on),
                            get_parameter_value(camera_params, last'.on))
          /\ \A other \in ParamNameSet \ {last'.on} :
                get_parameter_value(camera_params', other) =
                   get_parameter_value(camera_params, other)]_vars

C11_Witness ==
    /\ last.op = "set_constraints"
    /\ last.on = "translate_x"
    /\ get_constraints(camera_params, "translate_x").min_value = Some(MaxBound)
    /\ camera_params._translation[1] = MaxBound
    /\ camera_params._translation[2] = -1
    /\ camera_params._constraints["translate_y"] = camera_params._constraints["translate_x"]

\* C12: in every reachable state of a parameter set, each stored constraint
\* with both bounds present has min_value <= max_value.
C12_MinAtMostMax ==
    \A name \in ParamNameSet :
        LET c == get_constraints(camera_params, name)
        IN  (c.min_value # None /\ c.max_value # None)
               => c.min_value[1] <= c.max_value[1]

\* the values clamp is applied to
ClampInputs == (-2)..(MaxVal + MaxBound + 1)

\* C13: clamp(clamp(x)) = clamp(x) for every value x and every
\* ParameterConstraints: those stored in the parameter set and those callers
\* construct, with one bound, no bound, or min_value > max_value.
C13_ClampIdempotent ==
    \A c \in {get_constraints(camera_params, name) : name \in ParamNameSet}
             \cup ConstraintInputs :
        \A x \in ClampInputs \cup {FocalMin - 1, FocalMax + 1, FilmOffsetMin - 1, FilmOffsetMax + 1} :
            clamp_value(c, clamp_value(c, x)) = clamp_value(c, x)

C13_Witness ==
    /\ last.op = "set_parameter_value"
    /\ last.on = "translate_x"
    /\ get_constraints(camera_params, "translate_x").min_value = Some(MaxBound)
    /\ get_constraints(camera_params, "translate_x").max_value = Some(0)
    /\ camera_params._translation[1] = 0

\* C29: constraint state is per parameter: lock(name, b) and later changes
\* to the bounds of name change only the lock flag and the bounds of name
\* and leave those of every other parameter unchanged, also when the same
\* constraint object was passed to set_constraint for several names.
C29_ConstraintStatePerParameter ==
    [][last'.op \in {"lock_parameter", "_on_parameter_min_changed",
                     "_on_parameter_max_changed"}
       => \A other \in ParamNameSet \ {last'.on} :
             get_constraints(camera_params', other) = get_constraints(camera_params, other)]_vars

----------------------------------------------------------------------------
(* Properties of LocatorPair (checked under SpecPairs).                    *)

\* C2: once the anchor of a correspondence has been deleted from the scene
\* and is_valid has evaluated to false on the instance, every later
\* evaluation of is_valid on that instance returns false, even after a node
\* with the same name is added to the scene again.
C2_SeenInvalidStaysInvalid ==
    (last.op = "is_valid" /\ last.on \in history.seen_invalid)
        => last.ret = Some(FALSE)

\* C3: after a read of world_position has failed on an instance, or
\* delete_locator was called on it, is_valid is false on that instance in
\* every later state, whatever happens to the scene.
C3_ReadFailedStaysInvalid ==
    \A id \in history.read_failed :
        /\ ~is_valid(maya, PairOf(id))
        /\ (last.op = "is_valid" /\ last.on = id) => last.ret = Some(FALSE)

C3_Witness ==
    /\ last.op = "is_valid"
    /\ last.on \in history.read_failed
    /\ last.ret = Some(FALSE)
    /\ maya.nodes[PairOf(last.on).locator_name].kind = "transform"

----------------------------------------------------------------------------
(* Properties of optimization runs (checked under SpecOpt).                *)

\* the residuals of the valid pairs projected through the values held by
\* the parameter set cp
RECURSIVE ResidualsThroughParameters(_, _, _, _, _, _)
ResidualsThroughParameters(cp, m, pairs, image_width, image_height, i) ==
    IF i > Len(pairs) THEN <<>>
    ELSE IF ~is_valid(m, pairs[i])
    THEN ResidualsThroughParameters(cp, m, pairs, image_width, image_height, i + 1)
    ELSE LET ndc == ProjectCameraSpace(
                        CameraSpacePoint(m.nodes[pairs[i].locator_name].translate,
                                         cp._translation, cp._rotation),
                        cp._focal_length, cp._film_aperture_h, cp._film_aperture_v,
                        cp._film_offset_x, cp._film_offset_y)
             proj_pixel == NdcToPixel(ndc, image_width, image_height)
         IN  (IF ndc = None THEN <<QInt(Penalty), QInt(Penalty)>>
              ELSE <<QSub(proj_pixel[1], QInt(pairs[i].pixel_coords[1])),
                     QSub(proj_pixel[2], QInt(pairs[i].pixel_coords[2]))>>)
             \o ResidualsThroughParameters(cp, m, pairs, image_width, image_height, i + 1)

\* C1: the residuals returned by one evaluation of the objective are those
\* of every valid correspondence projected through the parameter values the
\* evaluation has just written into the parameter set (here: whenever every
\* correspondence is valid and its locator is a transform).
C1_ResidualsThroughWrittenValues ==
    (/\ last.op = "_objective_function"
     /\ \A i \in 1..Len(locator_pairs) :
           /\ is_valid(maya, locator_pairs[i])
           /\ maya.nodes[locator_pairs[i].locator_name].kind = "transform")
    => last.ret = Some(ResidualsThroughParameters(camera_params, maya, locator_pairs,
                           optimizer.image_width, optimizer.image_height, 1))

\* the errors with which optimize and optimize_camera refuse a setup
SetupErrors == {"ValueError", "RuntimeError"}

\* the number of correspondences that are valid now
NumValid == Cardinality({i \in 1..Len(locator_pairs) : is_valid(maya, locator_pairs[i])})

\* C4: whenever fewer than 3 correspondences are valid, optimize() (called
\* directly or through optimize_camera) fails with a setup error for every
\* method and every parameter/lock state, without entering the solver or
\* evaluating the objective and without changing any parameter value.
C4_TooFewValidPairs ==
    [][(/\ last'.op \in {"optimize", "optimize_camera"}
        /\ optimizer.pc = "idle"
        /\ NumValid < 3)
       => (/\ last'.err \in SetupErrors
           /\ optimizer'.pc = "idle"
           /\ optimizer'.iteration_count = optimizer.iteration_count
           /\ camera_params' = camera_params)]_vars

C4_Witness ==
    /\ last.op = "optimize"
    /\ last.err = "ValueError"
    /\ NumValid = 2
    /\ UnlockedSet(camera_params) # {}
    /\ optimizer.has_params
    /\ optimizer.image_width > 0 /\ optimizer.image_height > 0

\* C5: every entry point that starts an optimization (optimize called
\* directly, and optimize_camera) fails, before the solver is entered, when
\* no parameter is unlocked, or the image width or height is <= 0, or no
\* parameter set is attached; whichever error is raised is accepted here, so
\* that only a setup that is run violates the property.
C5_InvalidSetupRefused ==
    [][(/\ last'.op \in {"optimize", "optimize_camera"}
        /\ optimizer.pc = "idle"
        /\ \/ UnlockedSet(camera_params) = {}
           \/ optimizer.image_width <= 0
           \/ optimizer.image_height <= 0
           \/ ~optimizer.has_params)
       => (last'.err # "none" /\ optimizer'.pc = "idle")]_vars


\* the correspondences that are valid now, and the place of correspondence i
\* among them
ValidNow == {i \in 1..Len(locator_pairs) : is_valid(maya, locator_pairs[i])}
ValidRank(i) == Cardinality({j \in ValidNow : j < i}) + 1

\* C14: one residual evaluation never aborts because of a correspondence and
\* produces exactly two entries per correspondence that is valid at that
\* evaluation: an invalid correspondence contributes no entries, and a valid
\* one whose projection fails during the pass contributes exactly
\* (1000.0, 1000.0).
C14_TwoEntriesPerValidPair ==
    optimizer.has_params =>
       \A params \in SolverVectors(camera_params) :
          LET r == _objective_function(optimizer, camera_params, maya, locator_pairs, params)
          IN  /\ r.err = "none"
              /\ Len(r.ret[1]) = 2 * Cardinality(ValidNow)
              /\ \A i \in ValidNow :
                    get_projected_coords(maya, locator_pairs[i], CameraName).err # "none"
                       => /\ r.ret[1][2 * ValidRank(i) - 1] = QInt(Penalty)
                          /\ r.ret[1][2 * ValidRank(i)] = QInt(Penalty)

C14_Witness ==
    /\ last.op = "_objective_function"
    /\ Len(last.ret[1]) = 6
    /\ last.ret[1][5] = QInt(Penalty)
    /\ last.ret[1][6] = QInt(Penalty)
    /\ last.ret[1][1] # QInt(Penalty)
    /\ ~locator_pairs[3]._is_valid


\* C17: whenever the solver returns, converged or not, optimize writes the
\* returned vector back with from_vector before it returns: the unlocked
\* parameter values are the clamped entries of the returned vector, for
\* success = true and for success = false, with no rollback.
C17_ReturnedVectorWrittenBack ==
    [][last'.op = "optimize_returns"
       => \A n \in UnlockedSet(camera_params) :
             get_parameter_value(camera_params', n) =
                clamp_value(get_constraints(camera_params, n),
                            last'.ret[1].x[Rank(camera_params, n)])]_vars

C17_Witness ==
    /\ last.op = "optimize_returns"
    /\ ~last.ret[1].success
    /\ last.ret[1].x = <<0, MaxVal>>
    /\ camera_params._translation[1] = 0
    /\ camera_params._translation[2] = MaxVal
    /\ maya.camera.translate[2] = 0


\* C18: when the solver raises an internal exception during a run, the
\* outcome at the boundary of optimize is a result with converged = false
\* that carries the cause, not an exception propagating out of optimize
\* (and the run is not retried: the optimizer is idle afterwards).
C18_SolverExceptionBecomesResult ==
    last.op = "optimize_raises"
       => /\ last.err = "none"
          /\ last.ret # None
          /\ ~last.ret[1].success
          /\ optimizer.pc = "idle"


\* C19: when a progress callback is set, every objective evaluation of a
\* run, in the least-squares mode as well as in the scalar-minimize mode,
\* invokes the callback exactly once with (evaluation_count, current_cost),
\* where evaluation_count is 1 for the first evaluation of the run and
\* increases by 1 per evaluation.
C19_CallbackOncePerEvaluation ==
    (optimizer.progress_callback /\ last.op \in {"_objective_function", "_cost_function"})
       => history.progress =
             Some(<<history.evaluations,
                    IF last.op = "_cost_function" THEN last.ret[1]
                    ELSE SumSquares(last.ret[1])>>)


\* the locked names, and what a write must leave alone: the values of the
\* locked names, the lock flags and the film aperture values
LockedSet(cp) == ParamNameSet \ UnlockedSet(cp)
LockedAndApertureKept(before, after) ==
    /\ \A n \in LockedSet(before) :
          get_parameter_value(after, n) = get_parameter_value(before, n)
    /\ LockedSet(after) = LockedSet(before)
    /\ after._film_aperture_h = before._film_aperture_h
    /\ after._film_aperture_v = before._film_aperture_v

\* C20: from_vector and a complete optimize run (lock state unchanged during
\* the run) never change the value of a locked parameter nor the film
\* aperture values: only unlocked canonical parameters are written.
C20_LockedAndApertureUntouched ==
    /\ [](\A values \in SolverVectors(camera_params) :
             LockedAndApertureKept(camera_params,
                                   set_parameter_vector(camera_params, values).cp))
    /\ [][optimizer.pc = "solver"
          => /\ LockedAndApertureKept(camera_params, camera_params')
             /\ maya'.camera.horizontalFilmAperture = maya.camera.horizontalFilmAperture
             /\ maya'.camera.verticalFilmAperture = maya.camera.verticalFilmAperture]_vars

C20_Witness ==
    /\ last.op = "optimize_returns"
    /\ is_parameter_locked(camera_params, "translate_x")
    /\ ~is_parameter_locked(camera_params, "translate_y")
    /\ last.ret[1].x = <<MaxVal>>
    /\ camera_params._translation = <<0, MaxVal, 0>>


----------------------------------------------------------------------------
(* Properties of the projection routines (checked under SpecProj).         *)

\* the camera-space point of the locator of pair id, and of a point, for the
\* camera in the scene
CameraSpaceOf(point) ==
    CameraSpacePoint(point, maya.camera.translate, maya.camera.rotate)
LocatorPoint(id) == maya.nodes[PairOf(id).locator_name].translate

\* the projection of pair id cannot be computed: the correspondence is
\* invalid, its anchor or the camera is missing, or the point is degenerate
CannotProject(id) ==
    \/ ~PairOf(id)._is_valid
    \/ maya.nodes[PairOf(id).locator_name].kind # "transform"
    \/ maya.camera.kind = "absent"
    \/ CameraSpaceOf(LocatorPoint(id))[3] = 0

\* the pixel the locator of pair id projects to through the camera of the
\* scene (default lens and film back, no offsets): with x, y, z the
\* camera-space point, ((1 - 2xf/(zH)) W/2, (1 - 2yf/(zV)) H'/2)
ExpectedPixel(id) ==
    LET cs == CameraSpaceOf(LocatorPoint(id))
    IN  << Q((cs[3] * DefaultApertureH - 2 * cs[1] * DefaultFocalLength) * optimizer.image_width,
             2 * cs[3] * DefaultApertureH),
           Q((cs[3] * DefaultApertureV - 2 * cs[2] * DefaultFocalLength) * optimizer.image_height,
             2 * cs[3] * DefaultApertureV) >>

\* C15: reprojection_error never raises: for an invalid correspondence, a
\* missing anchor or camera, or a degenerate projection it returns
\* +infinity, and otherwise the Euclidean pixel distance between the
\* projected point and pixel_observation.
C15_ReprojectionErrorTotal ==
    last.op = "get_reprojection_error"
       => /\ last.err = "none"
          /\ CannotProject(last.on) => last.ret = Inf
          /\ ~CannotProject(last.on) =>
                LET dx == QSub(ExpectedPixel(last.on)[1], QInt(PairOf(last.on).pixel_coords[1]))
                    dy == QSub(ExpectedPixel(last.on)[2], QInt(PairOf(last.on).pixel_coords[2]))
                IN  last.ret = Sqrt(QAdd(QMul(dx, dx), QMul(dy, dy)))

C15_Witness ==
    /\ last.op = "get_reprojection_error"
    /\ ~CannotProject(last.on)
    /\ LocatorPoint(last.on) = <<MaxVal, 0, -10>>
    /\ last.ret # Inf
    /\ last.ret # Sqrt(QInt(0))

\* C16: every projection routine of the program (get_projected_coords and
\* project_point) reports a failure, and returns no coordinates, whenever
\* the camera-space z of the point has magnitude below 1e-6.
C16_DegenerateProjectionFails ==
    /\ (last.op = "project_point" /\ CameraSpaceOf(last.on)[3] = 0)
          => (last.err # "none" /\ last.ret = None)
    /\ (/\ last.op = "get_projected_coords"
        /\ maya.nodes[PairOf(last.on).locator_name].kind = "transform"
        /\ CameraSpaceOf(LocatorPoint(last.on))[3] = 0)
          => (last.err # "none" /\ last.ret = None)


\* the calls that compute errors for the current parameters
ErrorOps == {"calculate_total_error", "calculate_rms_error", "get_individual_errors"}

\* C21: total_squared_error, rms_error and per_correspondence_errors are
\* read-only: they leave every parameter value, lock, bound and every pixel
\* observation unchanged, and rms_error returns +infinity when no
\* correspondence is valid.
C21_ErrorsReadOnly ==
    [][last'.op \in ErrorOps
       => /\ camera_params' = camera_params
          /\ \A i \in 1..Len(locator_pairs) :
                locator_pairs'[i].pixel_coords = locator_pairs[i].pixel_coords
          /\ Len(locator_pairs') = Len(locator_pairs)
          /\ (last'.op = "calculate_rms_error" /\ Cardinality(ValidNow) = 0)
                => last'.ret = Inf]_vars

C21_Witness ==
    /\ last.op = "calculate_rms_error"
    /\ Cardinality(ValidNow) = 0
    /\ last.ret = Inf
    /\ maya.nodes["cam_match_loc_001"].kind = "other"


\* comparisons of rationals
QLess(a, b) == a[1] * b[2] < b[1] * a[2]

\* the camera of the scene has the identity world transform and no film offset
IdentityCamera ==
    /\ maya.camera.kind = "transform"
    /\ maya.camera.translate = <<0, 0, 0>>
    /\ maya.camera.rotate = <<0, 0, 0>>
    /\ maya.camera.horizontalFilmOffset = 0
    /\ maya.camera.verticalFilmOffset = 0

\* the NDC pair ndc of the camera-space point cs is oriented as stated
Oriented(cs, ndc) ==
    LET pixel == NdcToPixel(ndc, optimizer.image_width, optimizer.image_height)
    IN  /\ cs[2] > 0 => /\ QLess(QInt(0), ndc[2])
                        /\ QLess(pixel[2], QMul(QInt(optimizer.image_height), QHalf))
        /\ cs[1] > 0 => QLess(QMul(QInt(optimizer.image_width), QHalf), pixel[1])

\* C22: NDC +Y is up and pixel row 0 is the top: for a camera with identity
\* world transform and zero film offsets, every point in front of the camera
\* (camera-space z < 0) with camera-space y > 0 gets y_ndc > 0 and
\* pixel_y < image_height / 2, and every such point with camera-space x > 0
\* gets pixel_x > image_width / 2.
C22_NdcYUp ==
    /\ (/\ last.op = "get_projected_coords"
        /\ last.err = "none"
        /\ IdentityCamera
        /\ LocatorPoint(last.on)[3] < 0)
          => Oriented(LocatorPoint(last.on), last.ret)
    /\ (/\ last.op = "project_point"
        /\ IdentityCamera
        /\ last.on[3] < 0)
          => Oriented(last.on, last.ret)


----------------------------------------------------------------------------
(* Properties of CameraMatcher (checked under SpecMatcher).                *)

\* C27: after set_camera and set_image (with width > 0 and height > 0) have
\* both succeeded, in either order and with no correspondence created yet,
\* an optimizer is attached: optimize_camera does not fail with "Optimizer
\* not initialized. Set camera and image first." and
\* calculate_current_error is computed by the optimizer.
C27_OptimizerAttachedAfterSetup ==
    (/\ matcher.camera_params # 0
     /\ matcher.image_path # None
     /\ matcher.image_width > 0
     /\ matcher.image_height > 0
     /\ matcher._next_pair_id = 1)
       => /\ optimizer # None
          /\ last.op = "optimize_camera" => last.ret # Some(NotInitialized)
          /\ last.op = "calculate_current_error" => last.on = "optimizer"

\* C28: whenever an optimizer is attached it refers to the matcher's current
\* camera parameter set, its current correspondence list and its current
\* image width and height.
C28_OptimizerRefersToCurrent ==
    optimizer # None
       => /\ matcher.optimizer_camera_params = matcher.camera_params
          /\ matcher.optimizer_locator_pairs = 1
          /\ optimizer.image_width = matcher.image_width
          /\ optimizer.image_height = matcher.image_height


----------------------------------------------------------------------------
(* Properties of a run on generated correspondences (checked under         *)
(* SpecRecover).                                                           *)

\* the pose the correspondences were generated at: the camera of the scene
\* stands where the perturbation moved it
OriginalPose ==
    <<maya.camera.translate[1] - Perturbation[1],
      maya.camera.translate[2] - Perturbation[2],
      maya.camera.translate[3] - Perturbation[3]>>

\* C23: with four correspondences generated by projecting four known points
\* through a known camera pose and the translation then perturbed by
\* (1, 0, 0), optimize(method='lm') with the default constraints returns
\* converged = true with final_cost < 1.0 and leaves the translation at the
\* original pose.
C23_LmRecoversPose ==
    last.op = "optimize"
       => /\ last.err = "none"
          /\ last.ret[1].success
          /\ QLess(last.ret[1].final_error, QInt(1))
          /\ camera_params._translation = OriginalPose


----------------------------------------------------------------------------
(* Properties of the window (checked under SpecUI, and under SpecUILive    *)
(* where the worker and the event loop are scheduled fairly).              *)

\* the handlers of the GUI thread that touch the parameter set or the camera
ParameterHandlerOps ==
    {"_update_camera_info", "_on_parameter_value_changed", "_on_parameter_lock_changed",
     "_on_parameter_min_changed", "_on_parameter_max_changed"}

\* a step taken while the worker's run is inside the solver
InFlightStep == ui.optimization_worker = "solving" /\ ui'.optimization_worker = "solving"

\* C24: while a run started from the window is in flight, no other handler
\* (update timer, spin-box handler) executes the refresh from the Maya
\* camera or the write to it on the run's parameter set, and the Maya
\* camera is written only after the optimizer has returned.
C24_CameraUntouchedInFlight ==
    [][InFlightStep
          => /\ last'.op \notin {"_update_camera_info", "_on_parameter_value_changed"}
             /\ maya'.camera = maya.camera]_vars

\* C25: while a run is in flight, no handler of the window changes a value,
\* a lock flag or a bound of the run's parameter set, and the number of
\* unlocked parameters stays the same throughout the run.
C25_ParametersMutatedOnlyByRun ==
    [][InFlightStep
          => /\ last'.op \in ParameterHandlerOps => camera_params' = camera_params
             /\ Len(get_unlocked_parameter_names(camera_params'))
                   = Len(get_unlocked_parameter_names(camera_params))]_vars

\* a step that handles a click on the optimize button
ClickHandled ==
    last'.op = "_on_optimize" /\ (last.op # "_on_optimize" \/ last.ret # last'.ret)

\* C26: the window serializes runs: at most one optimization worker is
\* running on the matcher at any time, and a click on the optimize button
\* while a worker is running starts nothing.
C26_RunsSerialized ==
    /\ [](ui.running <= 1)
    /\ [][(isRunning(ui) /\ ClickHandled) => (ui' = ui /\ optimizer' = optimizer)]_vars

\* a click was handled while the worker was running, and started nothing
C26_Witness ==
    /\ isRunning(ui)
    /\ ui.running = 1
    /\ ui.optimize_btn_enabled
    /\ last.op = "_on_optimize"
    /\ last.ret = Some(<<"ignored">>)

\* _on_optimization_finished has just handled the one emission of the worker
Handled ==
    /\ last.op = "_on_optimization_finished"
    /\ ui.emitted = 1
    /\ ui.finished_pending = None

\* C30, as stated: once the emission of a worker has been handled, the
\* optimize button is enabled again and the progress bar hidden.
C30_ButtonEnabledAfterFinished ==
    Handled => ui.optimize_btn_enabled /\ ~ui.progress_bar_visible

\* C30, amended: every worker that is started emits optimization_finished
\* exactly once unless the window is closed first, with (False, +inf, 0)
\* when optimize_camera raised; once the emission has been handled the
\* progress bar is hidden and the optimize button is enabled exactly when an
\* image, a camera and at least one pair are present.
C30_WorkerEmitsOnce ==
    /\ [](ui.emitted <= 1)
    /\ [][(ui'.emitted = ui.emitted + 1 /\ last'.err # "none")
             => ui'.finished_pending = Some(<<FALSE, Inf, 0>>)]_WorkerProgress
    /\ [](Handled => /\ ~ui.progress_bar_visible
                     /\ ui.optimize_btn_enabled
                           = (matcher.image_path # None /\ matcher.camera_params # 0
                              /\ Len(locator_pairs) > 0))
    /\ (ui.optimization_worker = "started") ~> (ui.closed \/ Handled)

\* the emission of a worker whose optimize_camera raised has been handled
C30_Witness ==
    /\ Handled
    /\ last.ret = Some(<<FALSE, Inf, 0>>)
    /\ ui.optimize_btn_enabled
    /\ ~ui.progress_bar_visible

====
